---------------------------- MODULE Spec2Model ----------------------------
(***************************************************************************)
(* Model of the ic-1inch canisters: the escrow_manager timelock            *)
(* coordinator, the backend HTLC escrow store and the backend limit-order  *)
(* engine.                                                                 *)
(*                                                                         *)
(* Time.  The canisters read the IC clock in nanoseconds (u64).  The model *)
(* counts time in whole minutes (1 unit = 60 * 1_000_000_000 ns), so the   *)
(* *_NS constants below carry the source's values divided by one minute.   *)
(* All comparisons of the source (<, <=, >=) are kept as written.  Several *)
(* messages may be executed at one clock value: Tick is a separate step.   *)
(***************************************************************************)
EXTENDS Integers, Sequences, FiniteSets, TLC

(***************************************************************************)
(* Bounds of the model.                                                    *)
(***************************************************************************)
MaxTime == 2            \* the clock runs over 0..MaxTime
MaxTimelock == 12       \* base timelocks handed to the calculator: 0..MaxTimelock
MaxPairTimelock == 4    \* timelocks of escrows handed to the coordination ledger
U64Modulus == 256       \* stands for 2^64: u64 arithmetic wraps modulo this value
MaxEscrows == 1         \* escrow records held by the backend store
MaxAmount == 1          \* token amounts: 0..MaxAmount
MaxOrders == 1          \* orders the limit-order engine creates
MaxCalls == 2           \* update calls of the limit-order engine in flight at once
MaxFusionOrders == 1    \* fusion orders the orderbook holds
MaxFusionCalls == 2     \* update calls of the orderbook in flight at once
MaxMakingAmount == 4    \* making_amount of an order filled in parts
MaxSecrets == 2         \* secret hashes of an order filled in parts
MaxUtilsAmount == 3     \* making and taking amounts of the orders of the limit-order utils
MaxUtilsOrders == 1     \* orders the limit-order utils store
MaxUtilsFilled == 6     \* fills are offered while an order's filled total is below this
MaxEscrowCalls == 2     \* update calls of the escrow canister in flight at once
MaxCreates == 3         \* create_order calls of the concurrent-creation scenario
MaxElapsed == 7         \* elapsed times put to the price curve: 0..MaxElapsed
MaxEvents == 2          \* events in the log of a cross-chain pairing
MaxUpgrades == 2        \* upgrades of the backend canister
MaxTransfersOut == 2     \* transfers out of one escrow of the escrow canister

(***************************************************************************)
(* Program constants (escrow_manager/src/timelock.rs, in minutes).         *)
(***************************************************************************)
BUFFER_MINUTES == 3
FINALITY_BUFFER_NS == 2
COORDINATION_BUFFER_NS == 1
SAFETY_BUFFER_NS == 5
TOTAL_BUFFER_NS == FINALITY_BUFFER_NS + COORDINATION_BUFFER_NS
HourNs == 60            \* one hour, the base timelock of the documented scenario

VARIABLES
    now,                    \* ic_cdk::api::time()
    tl_resp,                \* escrow_manager: last timelock computation and its result
    cross_chain_escrows,    \* escrow_manager: CROSS_CHAIN_ESCROWS, order_id -> CrossChainEscrow
    escrows,                \* backend: ESCROWS, escrow id -> Escrow
    escrow_resp,            \* backend: the last escrow call and what it returned
    orders,                 \* backend: ORDERS, order id -> Order
    filled_orders,          \* backend: FILLED_ORDERS
    cancelled_orders,       \* backend: CANCELLED_ORDERS
    order_counter,          \* backend: ORDER_COUNTER
    stats,                  \* backend: SYSTEM_STATS (the three order counters)
    calls,                  \* backend: the update calls suspended at an await
    order_resp,             \* backend: the last order call that returned, and its result
    fill_ok,                \* history: order id -> number of fill_order calls that returned Ok
    fusion_orders,          \* orderbook: FUSION_ORDERS, order id -> FusionOrder
    fusion_calls,           \* orderbook: the update calls suspended at an await
    fusion_resp,            \* orderbook: the last call that returned, and its result
    ORDERS,                 \* limit-order utils: ORDERS, order hash -> Order
    FILLED_ORDERS,          \* limit-order utils: FILLED_ORDERS
    CANCELLED_ORDERS,       \* limit-order utils: CANCELLED_ORDERS
    REMAINING_AMOUNTS,      \* limit-order utils: REMAINING_AMOUNTS, order hash -> u64
    utils_resp,             \* limit-order utils: the last call and what it returned
    source_escrows,         \* backend: SOURCE_ESCROWS, escrow id -> SourceEscrow
    source_resp,            \* backend: the last source-escrow call and what it returned
    destination_escrows,    \* backend: DESTINATION_ESCROWS, escrow id -> DestinationEscrow
    destination_resp,       \* backend: the last destination-escrow call and what it returned
    TIMELOCK_STORE,         \* limit-order hashlock_timelock: TIMELOCK_STORE, order id -> TimelockInfo
    FUSION_ESCROWS,         \* escrow canister: FUSION_ESCROWS, escrow id -> FusionEscrow
    escrow_calls,           \* escrow canister: the update calls suspended at an await
    fusion_escrow_resp,     \* escrow canister: the last call that returned, and its result
    transfers_out,          \* history: escrow id -> transfers out of the escrow that succeeded
    fusion_ok,              \* history: the <<order id, call>> of the settling calls that returned Ok
    stable_memory,          \* backend: stable memory, what stable_save last wrote
    upgrade_resp,           \* the last upgrade of a canister and what was restored
    orderbook_stable_memory \* orderbook: stable memory, what stable_save last wrote

vars == <<now, tl_resp, cross_chain_escrows, escrows, escrow_resp,
          orders, filled_orders, cancelled_orders, order_counter, stats,
          calls, order_resp, fill_ok, fusion_orders, fusion_calls, fusion_resp,
          ORDERS, FILLED_ORDERS, CANCELLED_ORDERS, REMAINING_AMOUNTS, utils_resp,
          source_escrows, source_resp, destination_escrows, destination_resp,
          TIMELOCK_STORE, FUSION_ESCROWS, escrow_calls, fusion_escrow_resp,
          transfers_out, fusion_ok, stable_memory, upgrade_resp,
          orderbook_stable_memory>>

timelockVars == <<tl_resp, cross_chain_escrows>>
escrowVars == <<escrows, escrow_resp>>
orderVars == <<orders, filled_orders, cancelled_orders, order_counter, stats,
               calls, order_resp, fill_ok>>

\* What the operations of one canister leave alone: the other canisters' state.
fusionVars == <<fusion_orders, fusion_calls, fusion_resp>>
utilsVars == <<ORDERS, FILLED_ORDERS, CANCELLED_ORDERS, REMAINING_AMOUNTS, utils_resp>>
roleVars == <<source_escrows, source_resp, destination_escrows, destination_resp>>
lockVars == <<TIMELOCK_STORE>>
fusionEscrowVars == <<FUSION_ESCROWS, escrow_calls, fusion_escrow_resp>>
upgradeVars == <<stable_memory, upgrade_resp, orderbook_stable_memory>>
historyVars == <<transfers_out, fusion_ok>>
outsideTimelock == <<escrowVars, orderVars, fusionVars, utilsVars, roleVars, lockVars, fusionEscrowVars, upgradeVars, historyVars>>
outsideEscrow == <<timelockVars, orderVars, fusionVars, utilsVars, roleVars, lockVars, fusionEscrowVars, upgradeVars, historyVars>>
outsideOrders == <<timelockVars, escrowVars, fusionVars, utilsVars, roleVars, lockVars, fusionEscrowVars, upgradeVars, historyVars>>
outsideFusion == <<timelockVars, escrowVars, orderVars, utilsVars, roleVars, lockVars, fusionEscrowVars, upgradeVars, historyVars>>
outsideUtils == <<timelockVars, escrowVars, orderVars, fusionVars, roleVars, lockVars, fusionEscrowVars, upgradeVars, historyVars>>
outsideRoles == <<timelockVars, escrowVars, orderVars, fusionVars, utilsVars, lockVars, fusionEscrowVars, upgradeVars, historyVars>>
outsideLocks == <<escrowVars, orderVars, fusionVars, utilsVars, roleVars, fusionEscrowVars, upgradeVars, historyVars>>
outsideFusionEscrow == <<timelockVars, escrowVars, orderVars, fusionVars, utilsVars, roleVars, lockVars, upgradeVars, historyVars>>
\* The same for the steps that write a history variable.
outsideEscrowTransfers == <<timelockVars, escrowVars, orderVars, fusionVars, utilsVars, roleVars, lockVars, upgradeVars, fusion_ok>>
outsideFusionSettled == <<timelockVars, escrowVars, orderVars, utilsVars, roleVars, lockVars, fusionEscrowVars, upgradeVars, transfers_out>>

(***************************************************************************)
(* u64 arithmetic as the release build computes it: wrapping.              *)
(***************************************************************************)
WrapAdd(a, b) == (a + b) % U64Modulus
WrapSub(a, b) == (a - b + U64Modulus) % U64Modulus

(***************************************************************************)
(* escrow_manager/src/timelock.rs                                          *)
(***************************************************************************)
\* Mutant: the guard compares against the clock alone, without the buffers.
calculate_conservative_timelocks_no_margin(base_timelock, current_time) ==
    IF base_timelock <= current_time
    THEN [ok |-> FALSE, err |-> "TimelockTooShort"]
    ELSE [ok |-> TRUE,
          icp_timelock |-> base_timelock,
          evm_timelock |-> WrapSub(base_timelock, TOTAL_BUFFER_NS),
          buffer_minutes |-> BUFFER_MINUTES]

\* Mutant: the guard is strict (<) where the source has <=.
calculate_conservative_timelocks_strict(base_timelock, current_time) ==
    LET min_timelock == WrapAdd(WrapAdd(current_time, TOTAL_BUFFER_NS), SAFETY_BUFFER_NS)
    IN  IF base_timelock < min_timelock
        THEN [ok |-> FALSE, err |-> "TimelockTooShort"]
        ELSE [ok |-> TRUE,
              icp_timelock |-> base_timelock,
              evm_timelock |-> WrapSub(base_timelock, TOTAL_BUFFER_NS),
              buffer_minutes |-> BUFFER_MINUTES]

calculate_conservative_timelocks(base_timelock, current_time) ==
    LET min_timelock == WrapAdd(WrapAdd(current_time, TOTAL_BUFFER_NS), SAFETY_BUFFER_NS)
    IN  IF base_timelock <= min_timelock
        THEN [ok |-> FALSE, err |-> "TimelockTooShort"]
        ELSE [ok |-> TRUE,
              icp_timelock |-> base_timelock,
              evm_timelock |-> WrapSub(base_timelock, TOTAL_BUFFER_NS),
              buffer_minutes |-> BUFFER_MINUTES]

\* Mutant: the ordering check before the subtraction is missing.
validate_cross_chain_coordination_no_order(icp_timelock, evm_timelock) ==
    LET buffer == WrapSub(icp_timelock, evm_timelock)
    IN  IF buffer < TOTAL_BUFFER_NS
        THEN [ok |-> FALSE, err |-> "InvalidTimelockCoordination"]
        ELSE [ok |-> TRUE]

validate_cross_chain_coordination(icp_timelock, evm_timelock) ==
    IF icp_timelock <= evm_timelock
    THEN [ok |-> FALSE, err |-> "InvalidTimelockCoordination"]
    ELSE LET buffer == WrapSub(icp_timelock, evm_timelock)
         IN  IF buffer < TOTAL_BUFFER_NS
             THEN [ok |-> FALSE, err |-> "InvalidTimelockCoordination"]
             ELSE [ok |-> TRUE]

(***************************************************************************)
(* Values of the escrow_manager.                                           *)
(***************************************************************************)
NoResp == [op |-> "none"]

OrderIds == {"order_1", "order_2"}

\* An HTLCEscrow as the coordination ledger receives it.  Only the fields the
\* ledger or the timelock rules read are kept: timelock and status.
HTLCEscrowInputs ==
    [timelock : 0..MaxPairTimelock, status : {"Created"}]

(***************************************************************************)
(* The clock.                                                              *)
(***************************************************************************)
Tick ==
    /\ now < MaxTime
    /\ now' = now + 1

(***************************************************************************)
(* escrow_manager: the timelock functions applied at the current clock.    *)
(***************************************************************************)
CalculateConservativeTimelocks(base_timelock) ==
    /\ tl_resp' = [op |-> "calculate",
                   base_timelock |-> base_timelock,
                   current_time |-> now,
                   result |-> calculate_conservative_timelocks(base_timelock, now)]
    /\ UNCHANGED <<now, cross_chain_escrows, outsideTimelock>>

ValidateCrossChainCoordination(icp_timelock, evm_timelock) ==
    /\ tl_resp' = [op |-> "validate",
                   icp_timelock |-> icp_timelock,
                   evm_timelock |-> evm_timelock,
                   result |-> validate_cross_chain_coordination(icp_timelock, evm_timelock)]
    /\ UNCHANGED <<now, cross_chain_escrows, outsideTimelock>>

(***************************************************************************)
(* escrow_manager/src/memory.rs, lib.rs: the coordination ledger.          *)
(***************************************************************************)
store_cross_chain_escrow(store, escrow) ==
    [id \in DOMAIN store \cup {escrow.order_id} |->
        IF id = escrow.order_id THEN escrow ELSE store[id]]

create_cross_chain_escrow(order_id, icp_escrow, evm_escrow) ==
    LET current_time == now
        cross_chain_escrow ==
            [order_id |-> order_id,
             icp_escrow |-> icp_escrow,
             evm_escrow |-> evm_escrow,
             coordination_state |-> "EscrowsCreated",
             icp_finality_lag |-> 0,
             evm_finality_lag |-> 0,
             failed_transactions |-> 0,
             events |-> <<>>,
             created_at |-> current_time,
             updated_at |-> current_time]
    IN  /\ cross_chain_escrows' = store_cross_chain_escrow(cross_chain_escrows, cross_chain_escrow)
        /\ UNCHANGED <<now, tl_resp, outsideTimelock>>

\* CoordinationState
CoordinationStates ==
    {"Pending", "EscrowsCreated", "Active", "SecretRevealed", "Completed", "Expired", "Failed"}

\* CrossChainEscrowEvent, by its variant.
CrossChainEscrowEvents == {"EscrowCreated", "EscrowFunded", "SecretRevealed"}

\* memory::update_cross_chain_escrow: the record handed in replaces the stored one.
update_cross_chain_escrow(order_id, updated_escrow) ==
    /\ cross_chain_escrows' =
           IF order_id \in DOMAIN cross_chain_escrows
           THEN [cross_chain_escrows EXCEPT ![order_id] = updated_escrow]
           ELSE cross_chain_escrows
    /\ tl_resp' = [op |-> "update_cross_chain_escrow", order_id |-> order_id,
                   result |-> IF order_id \in DOMAIN cross_chain_escrows
                              THEN "Ok" ELSE "EscrowNotFound"]
    /\ UNCHANGED <<now, outsideTimelock>>

\* memory::update_cross_chain_coordination_state: the state handed in is written.
update_cross_chain_coordination_state(order_id, new_state) ==
    /\ cross_chain_escrows' =
           IF order_id \in DOMAIN cross_chain_escrows
           THEN [cross_chain_escrows EXCEPT ![order_id].coordination_state = new_state,
                                            ![order_id].updated_at = now]
           ELSE cross_chain_escrows
    /\ tl_resp' = [op |-> "update_cross_chain_coordination_state", order_id |-> order_id,
                   result |-> IF order_id \in DOMAIN cross_chain_escrows
                              THEN "Ok" ELSE "EscrowNotFound"]
    /\ UNCHANGED <<now, outsideTimelock>>

\* memory::add_event_to_cross_chain_escrow: the event is pushed onto the log.
add_event_to_cross_chain_escrow(order_id, event) ==
    /\ cross_chain_escrows' =
           IF order_id \in DOMAIN cross_chain_escrows
           THEN [cross_chain_escrows EXCEPT ![order_id].events = Append(@, event),
                                            ![order_id].updated_at = now]
           ELSE cross_chain_escrows
    /\ tl_resp' = [op |-> "add_event_to_cross_chain_escrow", order_id |-> order_id,
                   result |-> IF order_id \in DOMAIN cross_chain_escrows
                              THEN "Ok" ELSE "EscrowNotFound"]
    /\ UNCHANGED <<now, outsideTimelock>>

\* memory::clear_escrow_data: the store is emptied.
clear_escrow_data ==
    /\ cross_chain_escrows' = <<>>
    /\ tl_resp' = [op |-> "clear_escrow_data"]
    /\ UNCHANGED <<now, outsideTimelock>>

\* memory::import_escrow_data: the store is cleared and the backup's records
\* are inserted by their order_id, a later record replacing an earlier one.
import_escrow_data(backup) ==
    LET records == backup.cross_chain_escrows
    IN  /\ cross_chain_escrows' =
               [id \in {records[i].order_id : i \in 1..Len(records)} |->
                   LET last == CHOOSE i \in 1..Len(records) :
                                   /\ records[i].order_id = id
                                   /\ \A j \in (i + 1)..Len(records) :
                                          records[j].order_id # id
                   IN  records[last]]
        /\ tl_resp' = [op |-> "import_escrow_data", backup |-> backup, result |-> "Ok"]
        /\ UNCHANGED <<now, outsideTimelock>>

(***************************************************************************)
(* backend/src/escrows.rs: the HTLC escrow store.                          *)
(*                                                                         *)
(* SHA-256 is modelled as an injective tagging of the preimage: two        *)
(* preimages hash alike only if they are equal, and a hashlock that is no  *)
(* digest of a known preimage (NoDigest) matches nothing.                  *)
(***************************************************************************)
Preimages == {"secret_a", "secret_b"}

Sha256(preimage) == <<"sha256", preimage>>

NoDigest == <<"bytes", "not_a_digest">>

Hashlocks == {Sha256("secret_a"), NoDigest}

Principals == {"alice", "bob"}

\* Callers of create_escrow and deposit_tokens.  is_authorized_resolver accepts
\* every principal, so one caller stands for all of them.
Resolvers == {"bob"}

TokenCanister == "token_a"

EscrowId(t) == <<"escrow", t>>

EscrowIds == {EscrowId(t) : t \in 0..MaxTime}

verify_hashlock(preimage, expected_hashlock) ==
    Sha256(preimage) = expected_hashlock

\* Mutant: the timelock still counts as active at the instant it is reached.
get_timelock_status_inclusive(timelock, current_time) ==
    IF current_time <= timelock THEN "Active" ELSE "Expired"

get_timelock_status(timelock, current_time) ==
    IF current_time < timelock THEN "Active" ELSE "Expired"

validate_timelock(timelock, current_time) ==
    IF timelock <= current_time THEN "InvalidTimelock" ELSE "Ok"

is_authorized_resolver(resolver) == TRUE

validate_create_escrow_authorization(caller) ==
    IF is_authorized_resolver(caller) THEN "Ok" ELSE "Unauthorized"

\* HashMap::insert: the record under an id already present is replaced.
Insert(map, key, value) ==
    [k \in DOMAIN map \cup {key} |-> IF k = key THEN value ELSE map[k]]

StateOf(escrow_id) ==
    IF escrow_id \in DOMAIN escrows THEN escrows[escrow_id].state ELSE "NotFound"

\* The checks of create_escrow, in the order the source makes them.
create_escrow_result(caller, params, current_time) ==
    IF validate_create_escrow_authorization(caller) # "Ok"
    THEN validate_create_escrow_authorization(caller)
    ELSE IF params.amount <= 0 THEN "InvalidAmount"
    ELSE validate_timelock(params.timelock, current_time)

create_escrow(caller, params) ==
    LET result == create_escrow_result(caller, params, now)
        escrow_id == EscrowId(now)
        escrow == [id |-> escrow_id,
                   hashlock |-> params.hashlock,
                   timelock |-> params.timelock,
                   token_canister |-> params.token_canister,
                   amount |-> params.amount,
                   maker |-> params.maker,
                   state |-> "Created",
                   created_at |-> now,
                   updated_at |-> now]
    IN  /\ escrows' = IF result = "Ok" THEN Insert(escrows, escrow_id, escrow) ELSE escrows
        /\ escrow_resp' = [op |-> "create", id |-> escrow_id, at |-> now,
                           pre_state |-> StateOf(escrow_id), result |-> result]
        /\ UNCHANGED <<now, outsideEscrow>>

\* The checks of deposit_tokens on an escrow that exists.
deposit_tokens_result(escrow, amount, caller) ==
    IF escrow.state # "Created" THEN "InvalidState"
    ELSE IF amount # escrow.amount THEN "InvalidAmount"
    ELSE IF ~is_authorized_resolver(caller) THEN "Unauthorized"
    ELSE "Ok"

deposit_tokens(caller, escrow_id, amount) ==
    LET result == IF escrow_id \notin DOMAIN escrows THEN "EscrowNotFound"
                  ELSE deposit_tokens_result(escrows[escrow_id], amount, caller)
    IN  /\ escrows' = IF result = "Ok"
                      THEN [escrows EXCEPT ![escrow_id].state = "Funded",
                                           ![escrow_id].updated_at = now]
                      ELSE escrows
        /\ escrow_resp' = [op |-> "deposit", id |-> escrow_id, at |-> now,
                           pre_state |-> StateOf(escrow_id), amount |-> amount,
                           result |-> result]
        /\ UNCHANGED <<now, outsideEscrow>>

\* Mutant: the state check is missing.
claim_escrow_result_any_state(escrow, preimage, current_time) ==
    IF ~verify_hashlock(preimage, escrow.hashlock) THEN "InvalidHashlock"
    ELSE IF get_timelock_status(escrow.timelock, current_time) = "Expired"
    THEN "TimelockExpired"
    ELSE "Ok"

\* Mutant: the timelock check is missing.
claim_escrow_result_no_timelock(escrow, preimage, current_time) ==
    IF escrow.state # "Funded" THEN "InvalidState"
    ELSE IF ~verify_hashlock(preimage, escrow.hashlock) THEN "InvalidHashlock"
    ELSE "Ok"

\* The checks of claim_escrow on an escrow that exists.
claim_escrow_result(escrow, preimage, current_time) ==
    IF escrow.state # "Funded" THEN "InvalidState"
    ELSE IF ~verify_hashlock(preimage, escrow.hashlock) THEN "InvalidHashlock"
    ELSE IF get_timelock_status(escrow.timelock, current_time) = "Expired"
    THEN "TimelockExpired"
    ELSE "Ok"

claim_escrow(escrow_id, preimage) ==
    LET result == IF escrow_id \notin DOMAIN escrows THEN "EscrowNotFound"
                  ELSE claim_escrow_result(escrows[escrow_id], preimage, now)
    IN  /\ escrows' = IF result = "Ok"
                      THEN [escrows EXCEPT ![escrow_id].state = "Claimed",
                                           ![escrow_id].updated_at = now]
                      ELSE escrows
        /\ escrow_resp' = [op |-> "claim", id |-> escrow_id, at |-> now,
                           pre_state |-> StateOf(escrow_id), preimage |-> preimage,
                           result |-> result]
        /\ UNCHANGED <<now, outsideEscrow>>

\* Mutant: the timelock check is missing.
refund_escrow_result_no_timelock(escrow, current_time) ==
    IF escrow.state # "Funded" THEN "InvalidState" ELSE "Ok"

\* The checks of refund_escrow on an escrow that exists.
refund_escrow_result(escrow, current_time) ==
    IF escrow.state # "Funded" THEN "InvalidState"
    ELSE IF get_timelock_status(escrow.timelock, current_time) # "Expired"
    THEN "TimelockNotExpired"
    ELSE "Ok"

refund_escrow(escrow_id) ==
    LET result == IF escrow_id \notin DOMAIN escrows THEN "EscrowNotFound"
                  ELSE refund_escrow_result(escrows[escrow_id], now)
    IN  /\ escrows' = IF result = "Ok"
                      THEN [escrows EXCEPT ![escrow_id].state = "Refunded",
                                           ![escrow_id].updated_at = now]
                      ELSE escrows
        /\ escrow_resp' = [op |-> "refund", id |-> escrow_id, at |-> now,
                           pre_state |-> StateOf(escrow_id), result |-> result]
        /\ UNCHANGED <<now, outsideEscrow>>

\* Inputs of create_escrow: amount 0 and a timelock at the clock are the
\* rejected cases.
CreateEscrowParams ==
    [maker : {"alice"}, hashlock : Hashlocks, token_canister : {TokenCanister},
     amount : 0..MaxAmount, timelock : now..(now + 2)]

(***************************************************************************)
(* backend/src/source_escrow.rs, limit-order/src/destination_escrow.rs:    *)
(* the escrows of the two roles.  Their functions are declared async but   *)
(* await nothing, so each call is one step.  deposit_tokens_to_source and  *)
(* deposit_tokens_to_destination make the checks of deposit_tokens.        *)
(***************************************************************************)
\* The callers of the role escrows: the maker, the taker and a third party.
RoleCallers == {"alice", "bob", "carol"}

\* Inputs of create_source_escrow and create_destination_escrow.
RoleEscrowParams ==
    [maker : {"alice"}, taker : {"bob"}, hashlock : {Sha256("secret_a")},
     token_canister : {TokenCanister}, amount : 0..MaxAmount, timelock : now..(now + 2)]

SourceEscrowId(t) == <<"src_escrow", t>>

SourceEscrowIds == {SourceEscrowId(t) : t \in 0..MaxTime}

SourceStateOf(escrow_id) ==
    IF escrow_id \in DOMAIN source_escrows THEN source_escrows[escrow_id].state ELSE "NotFound"

validate_create_source_escrow_authorization(caller) ==
    IF is_authorized_resolver(caller) THEN "Ok" ELSE "Unauthorized"

\* The checks of create_source_escrow, in the order the source makes them.
create_source_escrow_result(caller, params, current_time) ==
    IF validate_create_source_escrow_authorization(caller) # "Ok"
    THEN validate_create_source_escrow_authorization(caller)
    ELSE IF params.amount <= 0 THEN "InvalidAmount"
    ELSE validate_timelock(params.timelock, current_time)

create_source_escrow(caller, params) ==
    LET result == create_source_escrow_result(caller, params, now)
        escrow_id == SourceEscrowId(now)
        escrow == [id |-> escrow_id,
                   hashlock |-> params.hashlock,
                   timelock |-> params.timelock,
                   token_canister |-> params.token_canister,
                   amount |-> params.amount,
                   maker |-> params.maker,
                   taker |-> params.taker,
                   state |-> "Created",
                   created_at |-> now,
                   updated_at |-> now]
    IN  /\ source_escrows' = IF result = "Ok" THEN Insert(source_escrows, escrow_id, escrow) ELSE source_escrows
        /\ source_resp' = [op |-> "create", caller |-> caller, id |-> escrow_id, at |-> now,
                    pre_state |-> SourceStateOf(escrow_id), result |-> result]
        /\ UNCHANGED <<now, destination_escrows, destination_resp, outsideRoles>>

deposit_tokens_to_source(caller, escrow_id, amount) ==
    LET result == IF escrow_id \notin DOMAIN source_escrows THEN "EscrowNotFound"
                  ELSE deposit_tokens_result(source_escrows[escrow_id], amount, caller)
    IN  /\ source_escrows' = IF result = "Ok"
                   THEN [source_escrows EXCEPT ![escrow_id].state = "Funded",
                                    ![escrow_id].updated_at = now]
                   ELSE source_escrows
        /\ source_resp' = [op |-> "deposit", caller |-> caller, id |-> escrow_id, at |-> now,
                    pre_state |-> SourceStateOf(escrow_id), result |-> result]
        /\ UNCHANGED <<now, destination_escrows, destination_resp, outsideRoles>>

\* Mutant: the caller check is missing.
claim_source_escrow_result_any_caller(escrow, caller, preimage, current_time) ==
    IF escrow.state # "Funded" THEN "InvalidState"
    ELSE IF ~verify_hashlock(preimage, escrow.hashlock) THEN "InvalidHashlock"
    ELSE IF get_timelock_status(escrow.timelock, current_time) = "Expired"
    THEN "TimelockExpired"
    ELSE "Ok"

\* The checks of claim_source_escrow on an escrow that exists.
claim_source_escrow_result(escrow, caller, preimage, current_time) ==
    IF escrow.state # "Funded" THEN "InvalidState"
    ELSE IF caller # escrow.taker THEN "Unauthorized"
    ELSE IF ~verify_hashlock(preimage, escrow.hashlock) THEN "InvalidHashlock"
    ELSE IF get_timelock_status(escrow.timelock, current_time) = "Expired"
    THEN "TimelockExpired"
    ELSE "Ok"

claim_source_escrow(caller, escrow_id, preimage) ==
    LET result == IF escrow_id \notin DOMAIN source_escrows THEN "EscrowNotFound"
                  ELSE claim_source_escrow_result(source_escrows[escrow_id], caller, preimage, now)
    IN  /\ source_escrows' = IF result = "Ok"
                   THEN [source_escrows EXCEPT ![escrow_id].state = "Claimed",
                                    ![escrow_id].updated_at = now]
                   ELSE source_escrows
        /\ source_resp' = [op |-> "claim", caller |-> caller, id |-> escrow_id, at |-> now,
                    pre_state |-> SourceStateOf(escrow_id), preimage |-> preimage,
                    result |-> result]
        /\ UNCHANGED <<now, destination_escrows, destination_resp, outsideRoles>>

\* The checks of refund_source_escrow on an escrow that exists.
refund_source_escrow_result(escrow, caller, current_time) ==
    IF escrow.state # "Funded" THEN "InvalidState"
    ELSE IF caller # escrow.taker THEN "Unauthorized"
    ELSE IF get_timelock_status(escrow.timelock, current_time) # "Expired"
    THEN "TimelockNotExpired"
    ELSE "Ok"

refund_source_escrow(caller, escrow_id) ==
    LET result == IF escrow_id \notin DOMAIN source_escrows THEN "EscrowNotFound"
                  ELSE refund_source_escrow_result(source_escrows[escrow_id], caller, now)
    IN  /\ source_escrows' = IF result = "Ok"
                   THEN [source_escrows EXCEPT ![escrow_id].state = "Refunded",
                                    ![escrow_id].updated_at = now]
                   ELSE source_escrows
        /\ source_resp' = [op |-> "refund", caller |-> caller, id |-> escrow_id, at |-> now,
                    pre_state |-> SourceStateOf(escrow_id), result |-> result]
        /\ UNCHANGED <<now, destination_escrows, destination_resp, outsideRoles>>

DestinationEscrowId(t) == <<"dst_escrow", t>>

DestinationEscrowIds == {DestinationEscrowId(t) : t \in 0..MaxTime}

DestinationStateOf(escrow_id) ==
    IF escrow_id \in DOMAIN destination_escrows THEN destination_escrows[escrow_id].state ELSE "NotFound"

validate_create_destination_escrow_authorization(caller) ==
    IF is_authorized_resolver(caller) THEN "Ok" ELSE "Unauthorized"

\* The checks of create_destination_escrow, in the order the source makes them.
create_destination_escrow_result(caller, params, current_time) ==
    IF validate_create_destination_escrow_authorization(caller) # "Ok"
    THEN validate_create_destination_escrow_authorization(caller)
    ELSE IF params.amount <= 0 THEN "InvalidAmount"
    ELSE validate_timelock(params.timelock, current_time)

create_destination_escrow(caller, params) ==
    LET result == create_destination_escrow_result(caller, params, now)
        escrow_id == DestinationEscrowId(now)
        escrow == [id |-> escrow_id,
                   hashlock |-> params.hashlock,
                   timelock |-> params.timelock,
                   token_canister |-> params.token_canister,
                   amount |-> params.amount,
                   maker |-> params.maker,
                   taker |-> params.taker,
                   state |-> "Created",
                   created_at |-> now,
                   updated_at |-> now]
    IN  /\ destination_escrows' = IF result = "Ok" THEN Insert(destination_escrows, escrow_id, escrow) ELSE destination_escrows
        /\ destination_resp' = [op |-> "create", caller |-> caller, id |-> escrow_id, at |-> now,
                    pre_state |-> DestinationStateOf(escrow_id), result |-> result]
        /\ UNCHANGED <<now, source_escrows, source_resp, outsideRoles>>

deposit_tokens_to_destination(caller, escrow_id, amount) ==
    LET result == IF escrow_id \notin DOMAIN destination_escrows THEN "EscrowNotFound"
                  ELSE deposit_tokens_result(destination_escrows[escrow_id], amount, caller)
    IN  /\ destination_escrows' = IF result = "Ok"
                   THEN [destination_escrows EXCEPT ![escrow_id].state = "Funded",
                                    ![escrow_id].updated_at = now]
                   ELSE destination_escrows
        /\ destination_resp' = [op |-> "deposit", caller |-> caller, id |-> escrow_id, at |-> now,
                    pre_state |-> DestinationStateOf(escrow_id), result |-> result]
        /\ UNCHANGED <<now, source_escrows, source_resp, outsideRoles>>

\* The checks of claim_destination_escrow on an escrow that exists.
claim_destination_escrow_result(escrow, caller, preimage, current_time) ==
    IF escrow.state # "Funded" THEN "InvalidState"
    ELSE IF ~verify_hashlock(preimage, escrow.hashlock) THEN "InvalidHashlock"
    ELSE IF get_timelock_status(escrow.timelock, current_time) = "Expired"
    THEN "TimelockExpired"
    ELSE "Ok"

claim_destination_escrow(caller, escrow_id, preimage) ==
    LET result == IF escrow_id \notin DOMAIN destination_escrows THEN "EscrowNotFound"
                  ELSE claim_destination_escrow_result(destination_escrows[escrow_id], caller, preimage, now)
    IN  /\ destination_escrows' = IF result = "Ok"
                   THEN [destination_escrows EXCEPT ![escrow_id].state = "Claimed",
                                    ![escrow_id].updated_at = now]
                   ELSE destination_escrows
        /\ destination_resp' = [op |-> "claim", caller |-> caller, id |-> escrow_id, at |-> now,
                    pre_state |-> DestinationStateOf(escrow_id), preimage |-> preimage,
                    result |-> result]
        /\ UNCHANGED <<now, source_escrows, source_resp, outsideRoles>>

\* Mutant: the caller check is missing.
refund_destination_escrow_result_any_caller(escrow, caller, current_time) ==
    IF escrow.state # "Funded" THEN "InvalidState"
    ELSE IF get_timelock_status(escrow.timelock, current_time) # "Expired"
    THEN "TimelockNotExpired"
    ELSE "Ok"

\* The checks of refund_destination_escrow on an escrow that exists.
refund_destination_escrow_result(escrow, caller, current_time) ==
    IF escrow.state # "Funded" THEN "InvalidState"
    ELSE IF caller # escrow.taker THEN "Unauthorized"
    ELSE IF get_timelock_status(escrow.timelock, current_time) # "Expired"
    THEN "TimelockNotExpired"
    ELSE "Ok"

refund_destination_escrow(caller, escrow_id) ==
    LET result == IF escrow_id \notin DOMAIN destination_escrows THEN "EscrowNotFound"
                  ELSE refund_destination_escrow_result(destination_escrows[escrow_id], caller, now)
    IN  /\ destination_escrows' = IF result = "Ok"
                   THEN [destination_escrows EXCEPT ![escrow_id].state = "Refunded",
                                    ![escrow_id].updated_at = now]
                   ELSE destination_escrows
        /\ destination_resp' = [op |-> "refund", caller |-> caller, id |-> escrow_id, at |-> now,
                    pre_state |-> DestinationStateOf(escrow_id), result |-> result]
        /\ UNCHANGED <<now, source_escrows, source_resp, outsideRoles>>

(***************************************************************************)
(* backend/src/limit_orders.rs, memory.rs, types.rs: the limit-order       *)
(* engine.                                                                 *)
(*                                                                         *)
(* An update call runs without interruption up to an await on a call to a  *)
(* token canister; there it suspends, other messages run, and it resumes   *)
(* with the token canister's answer.  A suspended call sits in a slot of   *)
(* `calls` with what it holds in its locals; a call that returns frees the *)
(* slot and leaves its result in order_resp.  The token canisters are not  *)
(* modelled: every answer they can give is possible at every await.  Of    *)
(* SystemStats the error_counts and total_volume maps are left out.        *)
(***************************************************************************)
Anonymous == "2vxsx-fae"

Management == "aaaaa-aa"

NoPrincipal == "None"

MAX_EXPIRATION_DAYS == 30

\* limit_orders.rs:108, 30 days, in minutes
MaxExpirationNs == MAX_EXPIRATION_DAYS * 24 * 60

CallSlots == 1..MaxCalls

Idle == [pc |-> "idle"]

FreeSlots == {c \in CallSlots : calls[c].pc = "idle"}

\* A starting call takes the lowest free slot (the slots are interchangeable).
NextSlot == CHOOSE c \in FreeSlots : \A d \in FreeSlots : c <= d

\* What an ICRC-1 token canister can answer.
\* A balance, or the call fails (the balance then means nothing).
BalanceAnswers ==
    [failed : {FALSE}, balance : 0..MaxAmount] \cup [failed : {TRUE}, balance : {0}]

TransferAnswers == {"Ok", "TransferFailed", "TokenCallFailed"}

\* TokenInterface::balance_of, from the answer of icrc1_balance_of.
balance_of(answer) ==
    IF answer.failed THEN [ok |-> FALSE, err |-> "TokenCallFailed"]
    ELSE [ok |-> TRUE, balance |-> answer.balance]

\* TokenInterface::transfer, from the answer of icrc1_transfer.
transfer_unchecked(answer) == [ok |-> TRUE]

transfer(answer) ==
    IF answer = "Ok" THEN [ok |-> TRUE] ELSE [ok |-> FALSE, err |-> answer]

\* check_maker_balance / check_taker_balance, from the answer of balance_of.
check_balance(answer, amount) ==
    IF ~balance_of(answer).ok THEN balance_of(answer).err
    ELSE IF balance_of(answer).balance < amount THEN "InsufficientBalance"
    ELSE "Ok"

\* Order::get_state
get_state(order, filled, cancelled, current_time) ==
    IF order.expiration <= current_time THEN "Expired"
    ELSE IF order.id \in filled THEN "Filled"
    ELSE IF order.id \in cancelled THEN "Cancelled"
    ELSE "Active"

is_order_active(order_id) ==
    IF order_id \in DOMAIN orders
    THEN get_state(orders[order_id], filled_orders, cancelled_orders, now) = "Active"
    ELSE FALSE

validate_create_order_authorization(caller) ==
    IF caller = Anonymous THEN "Unauthorized" ELSE "Ok"

validate_order_params(maker_asset, taker_asset, making_amount, taking_amount, expiration, current_time) ==
    IF making_amount = 0 \/ taking_amount = 0 THEN "InvalidAmount"
    ELSE IF maker_asset = taker_asset THEN "InvalidAssetPair"
    ELSE IF expiration <= current_time THEN "InvalidExpiration"
    ELSE IF expiration > current_time + MaxExpirationNs THEN "InvalidExpiration"
    ELSE "Ok"

validate_cancel_order_authorization(caller, order) ==
    IF caller # order.maker THEN "Unauthorized"
    ELSE IF caller = Anonymous THEN "Unauthorized"
    ELSE "Ok"

\* Mutant: the order counter is read but not advanced.
StoreOrder_counter_not_advanced(slot_after, caller, params) ==
    LET order_id == order_counter + 1
        order == [id |-> order_id,
                  maker |-> caller,
                  receiver |-> params.receiver,
                  maker_asset |-> params.maker_asset,
                  taker_asset |-> params.taker_asset,
                  making_amount |-> params.making_amount,
                  taking_amount |-> params.taking_amount,
                  expiration |-> params.expiration,
                  created_at |-> now,
                  allowed_taker |-> params.allowed_taker]
    IN  /\ order_counter' = order_counter
        /\ orders' = Insert(orders, order_id, order)
        /\ stats' = [stats EXCEPT !.orders_created = @ + 1]
        /\ calls' = slot_after
        /\ order_resp' = [op |-> "create_order", caller |-> caller,
                          result |-> "Ok", order_id |-> order_id]
        /\ fill_ok' = Insert(fill_ok, order_id, 0)
        /\ UNCHANGED <<filled_orders, cancelled_orders>>

\* The tail of create_order, from generate_order_id on: it runs at once in test
\* mode and after the maker balance check otherwise.
StoreOrder(slot_after, caller, params) ==
    LET order_id == order_counter + 1
        order == [id |-> order_id,
                  maker |-> caller,
                  receiver |-> params.receiver,
                  maker_asset |-> params.maker_asset,
                  taker_asset |-> params.taker_asset,
                  making_amount |-> params.making_amount,
                  taking_amount |-> params.taking_amount,
                  expiration |-> params.expiration,
                  created_at |-> now,
                  allowed_taker |-> params.allowed_taker]
    IN  /\ order_counter' = order_id
        /\ orders' = Insert(orders, order_id, order)
        /\ stats' = [stats EXCEPT !.orders_created = @ + 1]
        /\ calls' = slot_after
        /\ order_resp' = [op |-> "create_order", caller |-> caller,
                          result |-> "Ok", order_id |-> order_id]
        /\ fill_ok' = Insert(fill_ok, order_id, 0)
        /\ UNCHANGED <<filled_orders, cancelled_orders>>

\* A call returns an error: nothing but the response changes.
ReturnError(slot_after, resp) ==
    /\ calls' = slot_after
    /\ order_resp' = resp
    /\ UNCHANGED <<orders, filled_orders, cancelled_orders, order_counter, stats, fill_ok>>

\* create_order up to its await (check_maker_balance) or, in test mode, to its end.
create_order(caller, params) ==
    LET auth == validate_create_order_authorization(caller)
        valid == validate_order_params(params.maker_asset, params.taker_asset,
                                       params.making_amount, params.taking_amount,
                                       params.expiration, now)
        failed(err) == ReturnError(calls, [op |-> "create_order", caller |-> caller,
                                           result |-> err])
    IN  /\ FreeSlots # {}
        /\ IF auth # "Ok" THEN failed(auth)
           ELSE IF valid # "Ok" THEN failed(valid)
           ELSE IF params.maker_asset # Management /\ params.taker_asset # Management
           THEN /\ calls' = [calls EXCEPT ![NextSlot] =
                                [pc |-> "create_check_maker_balance", caller |-> caller,
                                 params |-> params]]
                /\ UNCHANGED <<orders, filled_orders, cancelled_orders, order_counter,
                               stats, order_resp, fill_ok>>
           ELSE StoreOrder(calls, caller, params)
        /\ UNCHANGED <<now, outsideOrders>>

\* create_order resumes with the answer to the maker's balance_of.
create_order_resume(slot, answer) ==
    LET call == calls[slot]
        checked == check_balance(answer, call.params.making_amount)
        freed == [calls EXCEPT ![slot] = Idle]
    IN  /\ call.pc = "create_check_maker_balance"
        /\ IF checked # "Ok"
           THEN ReturnError(freed, [op |-> "create_order", caller |-> call.caller,
                                    result |-> checked])
           ELSE StoreOrder(freed, call.caller, call.params)
        /\ UNCHANGED <<now, outsideOrders>>

\* update_order_cancelled_state
update_order_cancelled_state(order_id) ==
    /\ cancelled_orders' = cancelled_orders \cup {order_id}
    /\ stats' = [stats EXCEPT !.orders_cancelled = @ + 1]

\* Why cancel_order or fill_order finds the order inactive.
cancel_inactive_reason_filled_first(order_id) ==
    IF order_id \in filled_orders THEN "OrderAlreadyFilled"
    ELSE IF orders[order_id].expiration <= now THEN "OrderExpired"
    ELSE IF order_id \in cancelled_orders THEN "OrderCancelled"
    ELSE "OrderAlreadyFilled"

\* Mutant: the cancelled set is looked at before the expiration.
cancel_inactive_reason_cancelled_first(order_id) ==
    IF order_id \in cancelled_orders THEN "OrderCancelled"
    ELSE IF orders[order_id].expiration <= now THEN "OrderExpired"
    ELSE IF order_id \in filled_orders THEN "OrderAlreadyFilled"
    ELSE "OrderAlreadyFilled"

cancel_inactive_reason(order_id) ==
    IF orders[order_id].expiration <= now THEN "OrderExpired"
    ELSE IF order_id \in filled_orders THEN "OrderAlreadyFilled"
    ELSE IF order_id \in cancelled_orders THEN "OrderCancelled"
    ELSE "OrderAlreadyFilled"

cancel_order(caller, order_id) ==
    LET result ==
            IF order_id \notin DOMAIN orders THEN "OrderNotFound"
            ELSE IF validate_cancel_order_authorization(caller, orders[order_id]) # "Ok"
            THEN validate_cancel_order_authorization(caller, orders[order_id])
            ELSE IF ~is_order_active(order_id) THEN cancel_inactive_reason(order_id)
            ELSE "Ok"
    IN  /\ IF result = "Ok"
           THEN update_order_cancelled_state(order_id)
           ELSE UNCHANGED <<cancelled_orders, stats>>
        /\ order_resp' = [op |-> "cancel_order", caller |-> caller,
                          order_id |-> order_id, result |-> result]
        /\ UNCHANGED <<orders, filled_orders, order_counter, calls, fill_ok>>
        /\ UNCHANGED <<now, outsideOrders>>

\* cancel_order_internal: the result of one cancellation of a batch, the
\* cancelled set being what the cancellations before it in the batch left.
cancel_order_internal(order_id, caller, cancelled) ==
    IF order_id \notin DOMAIN orders THEN "OrderNotFound"
    ELSE IF validate_cancel_order_authorization(caller, orders[order_id]) # "Ok"
    THEN validate_cancel_order_authorization(caller, orders[order_id])
    ELSE IF get_state(orders[order_id], filled_orders, cancelled, now) # "Active"
    THEN IF orders[order_id].expiration <= now THEN "OrderExpired"
         ELSE IF order_id \in filled_orders THEN "OrderAlreadyFilled"
         ELSE IF order_id \in cancelled THEN "OrderCancelled"
         ELSE "OrderAlreadyFilled"
    ELSE "Ok"

RECURSIVE batch_cancel_results(_, _, _)
\* The loop of batch_cancel_orders: one (order_id, result) per id, in order.
batch_cancel_results(order_ids, caller, cancelled) ==
    IF order_ids = <<>> THEN <<>>
    ELSE LET result == cancel_order_internal(Head(order_ids), caller, cancelled)
         IN  <<[order_id |-> Head(order_ids), result |-> result]>>
                 \o batch_cancel_results(Tail(order_ids), caller,
                                         IF result = "Ok"
                                         THEN cancelled \cup {Head(order_ids)}
                                         ELSE cancelled)

\* batch_cancel_orders: every id of the batch is cancelled in the one message.
batch_cancel_orders(caller, order_ids) ==
    LET results == batch_cancel_results(order_ids, caller, cancelled_orders)
        done == {i \in 1..Len(results) : results[i].result = "Ok"}
    IN  /\ cancelled_orders' = cancelled_orders \cup {results[i].order_id : i \in done}
        /\ stats' = [stats EXCEPT !.orders_cancelled = @ + Cardinality(done)]
        /\ order_resp' = [op |-> "batch_cancel_orders", caller |-> caller,
                          order_ids |-> order_ids, results |-> results]
        /\ UNCHANGED <<orders, filled_orders, order_counter, calls, fill_ok>>
        /\ UNCHANGED <<now, outsideOrders>>

\* update_order_filled_state: mark_order_filled, then track_order_filled once
\* for each of the two assets.
update_order_filled_state(order_id) ==
    /\ filled_orders' = filled_orders \cup {order_id}
    /\ stats' = [stats EXCEPT !.orders_filled = (@ + 1) + 1]

\* fill_order returns Ok: phase 6 runs with no look at the order's present state.
\* `transfers` is history: the answers the call got to its icrc1_transfer calls.
FillSucceeds(slot_after, taker, order, transfers) ==
    /\ update_order_filled_state(order.id)
    /\ calls' = slot_after
    /\ order_resp' = [op |-> "fill_order", caller |-> taker, order_id |-> order.id,
                      result |-> "Ok", transfers |-> transfers]
    /\ fill_ok' = [fill_ok EXCEPT ![order.id] = @ + 1]
    /\ UNCHANGED <<orders, cancelled_orders, order_counter>>

FillFails(slot_after, taker, order_id, err, transfers) ==
    ReturnError(slot_after, [op |-> "fill_order", caller |-> taker,
                             order_id |-> order_id, result |-> err,
                             transfers |-> transfers])

\* fill_order suspends at an await, holding its locals.
FillSuspends(slot_after) ==
    /\ calls' = slot_after
    /\ UNCHANGED <<orders, filled_orders, cancelled_orders, order_counter, stats,
                   order_resp, fill_ok>>

\* execute_order_transfers up to its first await, or to its end in test mode.
execute_order_transfers_start(slot, taker, order) ==
    IF order.maker_asset = Management \/ order.taker_asset = Management
    THEN FillSucceeds([calls EXCEPT ![slot] = Idle], taker, order, <<>>)
    ELSE FillSuspends([calls EXCEPT ![slot] =
                          [pc |-> "fill_taker_balance", taker |-> taker, order |-> order,
                           transfers |-> <<>>]])

\* fill_order phases 1 to 3, then on to its first await or, in test mode, its end.
fill_order(taker, order_id) ==
    LET order == orders[order_id]
        result ==
            IF order_id \notin DOMAIN orders THEN "OrderNotFound"
            ELSE IF ~is_order_active(order_id) THEN cancel_inactive_reason(order_id)
            ELSE IF order.allowed_taker # NoPrincipal /\ taker # order.allowed_taker
            THEN "Unauthorized"
            ELSE "Ok"
    IN  /\ FreeSlots # {}
        /\ IF result # "Ok" THEN FillFails(calls, taker, order_id, result, <<>>)
           ELSE IF order.taker_asset # Management
           THEN FillSuspends([calls EXCEPT ![NextSlot] =
                                 [pc |-> "fill_check_taker_balance", taker |-> taker,
                                  transfers |-> <<>>,
                                  order |-> order]])
           ELSE execute_order_transfers_start(NextSlot, taker, order)
        /\ UNCHANGED <<now, outsideOrders>>

\* fill_order resumes with the answer to a balance_of: phase 4, then the two
\* pre-validations of execute_order_transfers.
fill_order_balance(slot, answer) ==
    LET call == calls[slot]
        order == call.order
        freed == [calls EXCEPT ![slot] = Idle]
        goes(pc) == FillSuspends([calls EXCEPT ![slot] = [call EXCEPT !.pc = pc]])
        amount == IF call.pc = "fill_maker_balance" THEN order.making_amount
                  ELSE order.taking_amount
        checked == check_balance(answer, amount)
    IN  /\ call.pc \in {"fill_check_taker_balance", "fill_taker_balance",
                        "fill_maker_balance"}
        /\ IF checked # "Ok" THEN FillFails(freed, call.taker, order.id, checked, <<>>)
           ELSE IF call.pc = "fill_check_taker_balance"
           THEN execute_order_transfers_start(slot, call.taker, order)
           ELSE IF call.pc = "fill_taker_balance" THEN goes("fill_maker_balance")
           ELSE goes("fill_taker_transfer")
        /\ UNCHANGED <<now, outsideOrders>>

\* What execute_order_transfers returns once the rollback of the taker's leg
\* has been answered: the maker leg's error if the rollback went through, a
\* SystemError if it did not.
rollback_result_conflated(e, rollback) == e

rollback_result(e, rollback) ==
    IF rollback.ok THEN e ELSE "SystemError"

\* fill_order resumes with the answer to a transfer: the taker's leg, the
\* maker's leg, or the rollback of the taker's leg.
fill_order_transfer(slot, answer) ==
    LET call == calls[slot]
        order == call.order
        freed == [calls EXCEPT ![slot] = Idle]
        done == transfer(answer)
        transfers == Append(call.transfers, answer)
    IN  /\ call.pc \in {"fill_taker_transfer", "fill_maker_transfer", "fill_rollback"}
        /\ IF call.pc = "fill_taker_transfer"
           THEN IF done.ok
                THEN FillSuspends([calls EXCEPT ![slot] =
                                      [call EXCEPT !.pc = "fill_maker_transfer",
                                                   !.transfers = transfers]])
                ELSE FillFails(freed, call.taker, order.id, done.err, transfers)
           ELSE IF call.pc = "fill_maker_transfer"
           THEN IF done.ok
                THEN FillSucceeds(freed, call.taker, order, transfers)
                ELSE FillSuspends([calls EXCEPT ![slot] =
                                      [pc |-> "fill_rollback", taker |-> call.taker,
                                       order |-> order, err |-> done.err,
                                       transfers |-> transfers]])
           ELSE FillFails(freed, call.taker, order.id, rollback_result(call.err, done),
                          transfers)
        /\ UNCHANGED <<now, outsideOrders>>

Makers == {"alice", Anonymous}

Takers == {"bob", "carol"}

TokenA == "token_a"

TokenB == "token_b"

\* The orders a caller can ask for at the present time.
CreateOrderParams ==
    [receiver : {"alice"},
     maker_asset : {TokenA, Management},
     taker_asset : {TokenA, TokenB, Management},
     making_amount : 0..MaxAmount,
     taking_amount : {MaxAmount},
     expiration : {now, now + 1, now + MaxExpirationNs + 1},
     allowed_taker : {NoPrincipal, "bob"}]

CreatingCalls == {c \in CallSlots : calls[c].pc = "create_check_maker_balance"}

(***************************************************************************)
(* orderbook/src/lib.rs, types.rs, memory.rs: the fusion order book.  The  *)
(* relayer canister (relayer/src/lib.rs) carries the same cancel_order,    *)
(* update_order_status and notify_* code.                                  *)
(*                                                                         *)
(* Of a FusionOrder the model keeps the fields its operations read or      *)
(* write after creation; the ETH addresses, the copies of the amounts, the *)
(* created_at / accepted_at / completed_at stamps and the auction          *)
(* parameters are left out.  A price curve is an opaque value here.        *)
(***************************************************************************)
FusionCallSlots == 1..MaxFusionCalls

NoAddress == "None"

NoPartialFillData == [enabled |-> FALSE]

OrderStatus == {"Pending", "Accepted", "Completed", "Failed", "Cancelled"}

Secrets == {"secret_a", "secret_b"}

\* compute_secret_hash: 64 hex characters computed from the secret.
compute_secret_hash(secret) == <<"hash", secret>>

\* A text that is not 64 hex characters, offered as a secret or as a hash.
MalformedSecret == "malformed"

MalformedHash == <<"malformed", "hash">>

\* secret.len() == 64 && secret.chars().all(|c| c.is_ascii_hexdigit())
WellFormedSecret(secret) == secret # MalformedSecret

WellFormedHash(secret_hash) == secret_hash # MalformedHash

\* generate_order_id: format!("fusion_{}_{}", timestamp, caller)
fusion_order_id(timestamp, caller) == <<"fusion", timestamp, caller>>

\* FusionOrder::new, then the fields create_order sets.
FusionOrder_new(id, caller, making_amount, hashlock, expiration) ==
    [id |-> id,
     maker_icp_principal |-> caller,
     resolver_icp_principal |-> NoPrincipal,
     making_amount |-> making_amount,
     secret_hash |-> hashlock,
     secret_hashes |-> <<hashlock>>,
     status |-> "Pending",
     fusion_state |-> "AnnouncementPhase",
     expires_at |-> expiration,
     escrow_src_address |-> NoAddress,
     escrow_dst_address |-> NoAddress,
     partial_fill_data |-> NoPartialFillData,
     price_curve |-> "default_curve"]

\* memory::store_fusion_order
store_fusion_order(order) == fusion_orders' = Insert(fusion_orders, order.id, order)

\* A call of the orderbook returns without storing anything.
FusionReturns(resp) ==
    /\ fusion_resp' = resp
    /\ UNCHANGED <<fusion_orders, fusion_calls>>

\* A call of the orderbook stores the order and returns.
FusionStores(order, resp) ==
    /\ store_fusion_order(order)
    /\ fusion_resp' = resp
    /\ UNCHANGED fusion_calls

\* orderbook create_order
orderbook_create_order(caller, params) ==
    LET order_id == fusion_order_id(now, caller)
        result ==
            IF params.from_amount = 0 \/ params.to_amount = 0 THEN "InvalidAmount"
            ELSE IF params.expiration <= WrapAdd(now, HourNs) THEN "InvalidExpiration"
            ELSE IF ~WellFormedHash(params.secret_hash) THEN "InvalidSecretHash"
            ELSE "Ok"
        resp == [op |-> "create_order", caller |-> caller, order_id |-> order_id,
                 result |-> result]
    IN  /\ IF result = "Ok"
           THEN FusionStores(FusionOrder_new(order_id, caller, params.from_amount,
                                             params.secret_hash, params.expiration), resp)
           ELSE FusionReturns(resp)
        /\ UNCHANGED <<now, outsideFusion>>

accept_fusion_order(caller, order_id) ==
    LET order == fusion_orders[order_id]
        resp(result) == [op |-> "accept_fusion_order", caller |-> caller,
                         order_id |-> order_id, result |-> result]
    IN  /\ IF order_id \notin DOMAIN fusion_orders THEN FusionReturns(resp("OrderNotFound"))
           ELSE IF order.status # "Pending" THEN FusionReturns(resp("OrderNotPending"))
           ELSE IF now > order.expires_at
           THEN FusionStores([order EXCEPT !.status = "Failed"], resp("OrderExpired"))
           ELSE FusionStores([order EXCEPT !.status = "Accepted",
                                           !.resolver_icp_principal = caller], resp("Ok"))
        /\ UNCHANGED <<now, outsideFusion>>

update_order_status(order_id, status) ==
    LET resp(result) == [op |-> "update_order_status", order_id |-> order_id,
                         result |-> result]
    IN  /\ IF order_id \notin DOMAIN fusion_orders THEN FusionReturns(resp("OrderNotFound"))
           ELSE FusionStores([fusion_orders[order_id] EXCEPT !.status = status], resp("Ok"))
        /\ UNCHANGED <<now, outsideFusion>>

update_price_curve(order_id, new_curve) ==
    LET order == fusion_orders[order_id]
        resp(result) == [op |-> "update_price_curve", order_id |-> order_id,
                         result |-> result]
    IN  /\ IF order_id \notin DOMAIN fusion_orders THEN FusionReturns(resp("OrderNotFound"))
           ELSE IF order.fusion_state # "AnnouncementPhase"
           THEN FusionReturns(resp("InvalidStateTransition"))
           ELSE FusionStores([order EXCEPT !.price_curve = new_curve], resp("Ok"))
        /\ UNCHANGED <<now, outsideFusion>>

notify_escrow_created(order_id, escrow_address, escrow_type) ==
    LET order == fusion_orders[order_id]
        with_address == IF escrow_type = "Source"
                        THEN [order EXCEPT !.escrow_src_address = escrow_address]
                        ELSE [order EXCEPT !.escrow_dst_address = escrow_address]
        updated == IF with_address.escrow_src_address # NoAddress
                      /\ with_address.escrow_dst_address # NoAddress
                   THEN [with_address EXCEPT !.fusion_state = "DepositPhase"]
                   ELSE with_address
        resp(result) == [op |-> "notify_escrow_created", order_id |-> order_id,
                         result |-> result]
    IN  /\ IF order_id \notin DOMAIN fusion_orders THEN FusionReturns(resp("OrderNotFound"))
           ELSE FusionStores(updated, resp("Ok"))
        /\ UNCHANGED <<now, outsideFusion>>

notify_escrow_completed(order_id) ==
    LET resp(result) == [op |-> "notify_escrow_completed", order_id |-> order_id,
                         result |-> result]
    IN  /\ IF order_id \notin DOMAIN fusion_orders THEN FusionReturns(resp("OrderNotFound"))
           ELSE FusionStores([fusion_orders[order_id] EXCEPT !.status = "Completed",
                                                            !.fusion_state = "Completed"],
                             resp("Ok"))
        /\ UNCHANGED <<now, outsideFusion>>

notify_escrow_cancelled(order_id) ==
    LET resp(result) == [op |-> "notify_escrow_cancelled", order_id |-> order_id,
                         result |-> result]
    IN  /\ IF order_id \notin DOMAIN fusion_orders THEN FusionReturns(resp("OrderNotFound"))
           ELSE FusionStores([fusion_orders[order_id] EXCEPT !.status = "Cancelled",
                                                            !.fusion_state = "Cancelled"],
                             resp("Ok"))
        /\ UNCHANGED <<now, outsideFusion>>

FusionFreeSlots == {c \in FusionCallSlots : fusion_calls[c].pc = "idle"}

FusionNextSlot == CHOOSE c \in FusionFreeSlots : \A d \in FusionFreeSlots : c <= d

\* What the escrow canister can answer to complete_swap_with_secret or
\* cancel_order: Ok, an error of its own, or the call fails.
EscrowAnswers == {"Ok", "Err", "CallFailed"}

\* A call of the orderbook suspends at its await, holding its clone of the order.
FusionSuspends(call) ==
    /\ fusion_calls' = [fusion_calls EXCEPT ![FusionNextSlot] = call]
    /\ UNCHANGED <<fusion_orders, fusion_resp>>

\* orderbook cancel_order up to its await on the escrow canister.
orderbook_cancel_order(caller, order_id) ==
    LET order == fusion_orders[order_id]
        is_maker == order.maker_icp_principal = caller
        is_resolver == order.resolver_icp_principal = caller
        can_cancel == now > order.expires_at \/ order.status = "Failed"
        resp(result) == [op |-> "cancel_order", caller |-> caller, order_id |-> order_id,
                         result |-> result]
    IN  /\ FusionFreeSlots # {}
        /\ IF order_id \notin DOMAIN fusion_orders THEN FusionReturns(resp("OrderNotFound"))
           ELSE IF ~is_maker /\ ~is_resolver THEN FusionReturns(resp("Unauthorized"))
           ELSE IF ~can_cancel /\ order.status # "Pending"
           THEN FusionReturns(resp("OrderNotCancellable"))
           ELSE FusionSuspends([pc |-> "cancel_order", caller |-> caller, order |-> order])
        /\ UNCHANGED <<now, outsideFusion>>

\* orderbook cancel_order resumes with the escrow canister's answer and stores
\* the clone it read before the await.
orderbook_cancel_order_resumed(slot, answer) ==
    LET call == fusion_calls[slot]
        resp(result) == [op |-> "cancel_order", caller |-> call.caller,
                         order_id |-> call.order.id, result |-> result]
    IN  /\ call.pc = "cancel_order"
        /\ fusion_calls' = [fusion_calls EXCEPT ![slot] = Idle]
        /\ IF answer = "Ok"
           THEN /\ store_fusion_order([call.order EXCEPT !.status = "Cancelled"])
                /\ fusion_resp' = resp("Ok")
           ELSE /\ fusion_resp' = resp("SystemError")
                /\ UNCHANGED fusion_orders
        /\ UNCHANGED <<now, outsideFusionSettled>>

\* complete_order_with_secret up to its await on the escrow canister.
complete_order_with_secret(order_id, secret) ==
    LET order == fusion_orders[order_id]
        resp(result) == [op |-> "complete_order_with_secret", order_id |-> order_id,
                         result |-> result]
    IN  /\ FusionFreeSlots # {}
        /\ IF order_id \notin DOMAIN fusion_orders THEN FusionReturns(resp("OrderNotFound"))
           ELSE IF order.status # "Accepted" THEN FusionReturns(resp("OrderNotPending"))
           ELSE IF ~WellFormedSecret(secret) THEN FusionReturns(resp("InvalidSecret"))
           ELSE IF compute_secret_hash(secret) # order.secret_hash
           THEN FusionReturns(resp("InvalidSecret"))
           ELSE FusionSuspends([pc |-> "complete_order_with_secret", order |-> order])
        /\ UNCHANGED <<now, outsideFusion>>

\* complete_order_with_secret resumes the same way.
complete_order_with_secret_resumed(slot, answer) ==
    LET call == fusion_calls[slot]
        resp(result) == [op |-> "complete_order_with_secret", order_id |-> call.order.id,
                         result |-> result]
    IN  /\ call.pc = "complete_order_with_secret"
        /\ fusion_calls' = [fusion_calls EXCEPT ![slot] = Idle]
        /\ IF answer = "Ok"
           THEN /\ store_fusion_order([call.order EXCEPT !.status = "Completed"])
                /\ fusion_resp' = resp("Ok")
           ELSE /\ fusion_resp' = resp("SystemError")
                /\ UNCHANGED fusion_orders
        /\ UNCHANGED <<now, outsideFusionSettled>>

\* The resumptions as steps that leave the history of settled orders alone ...
orderbook_cancel_order_resume(slot, answer) ==
    orderbook_cancel_order_resumed(slot, answer) /\ UNCHANGED fusion_ok

complete_order_with_secret_resume(slot, answer) ==
    complete_order_with_secret_resumed(slot, answer) /\ UNCHANGED fusion_ok

\* ... and as steps that record in it the call that returned Ok.
SettlingReturned ==
    IF fusion_resp'.result = "Ok"
    THEN fusion_ok' = fusion_ok \cup {<<fusion_resp'.order_id, fusion_resp'.op>>}
    ELSE fusion_ok' = fusion_ok

\* FusionOrder::get_secret_hash and the loop of reveal_multiple_secrets.
secrets_match(order, secrets) ==
    \A i \in 1..Len(secrets) :
        i <= Len(order.secret_hashes) =>
            compute_secret_hash(secrets[i]) = order.secret_hashes[i]

reveal_multiple_secrets(order_id, secrets) ==
    LET order == fusion_orders[order_id]
        resp(result) == [op |-> "reveal_multiple_secrets", order_id |-> order_id,
                         result |-> result]
    IN  /\ IF order_id \notin DOMAIN fusion_orders THEN FusionReturns(resp("OrderNotFound"))
           ELSE IF order.fusion_state # "DepositPhase"
           THEN FusionReturns(resp("InvalidStateTransition"))
           ELSE IF ~secrets_match(order, secrets) THEN FusionReturns(resp("InvalidSecret"))
           ELSE FusionStores([order EXCEPT !.fusion_state = "WithdrawalPhase"], resp("Ok"))
        /\ UNCHANGED <<now, outsideFusion>>

(***************************************************************************)
(* orderbook/src/types.rs, lib.rs: partial fills.  No endpoint calls       *)
(* enable_partial_fills or add_secret_hash: an order that can be filled in *)
(* parts is built with these two methods of FusionOrder.  Of a PartialFill *)
(* the resolver address and the timestamp are left out, of PartialFillData *)
(* the merkle root.                                                        *)
(***************************************************************************)
\* u64 multiplication.  A product past the u64 range wraps in a build without
\* overflow checks and panics in a build with them.
WrapMul(a, b) == (a * b) % U64Modulus

MulOverflows(a, b) == a * b >= U64Modulus

OverflowBuilds == {"wrap", "panic"}

\* PartialFillData::new
PartialFillData_new(parts_amount, total_amount) ==
    [enabled |-> TRUE,
     parts_amount |-> parts_amount,
     filled_amount |-> 0,
     remaining_amount |-> total_amount,
     fills |-> <<>>]

\* PartialFillData::add_fill: the result, and the data as the call leaves it.
add_fill_unchecked(data, fill) ==
    [result |-> "Ok",
     data |-> [data EXCEPT !.filled_amount = WrapAdd(@, fill.fill_amount),
                           !.remaining_amount = WrapSub(@, fill.fill_amount),
                           !.fills = Append(@, fill)]]

add_fill(data, fill) ==
    IF fill.fill_amount > data.remaining_amount
    THEN [result |-> "InsufficientRemainingAmount", data |-> data]
    ELSE [result |-> "Ok",
          data |-> [data EXCEPT !.filled_amount = WrapAdd(@, fill.fill_amount),
                                !.remaining_amount = WrapSub(@, fill.fill_amount),
                                !.fills = Append(@, fill)]]

\* FusionOrder::supports_partial_fills
supports_partial_fills(order) == order.partial_fill_data.enabled

\* FusionOrder::add_partial_fill: the result, and the order as the call leaves it.
add_partial_fill(order, fill) ==
    IF supports_partial_fills(order)
    THEN [result |-> add_fill(order.partial_fill_data, fill).result,
          order |-> [order EXCEPT !.partial_fill_data =
                                      add_fill(order.partial_fill_data, fill).data]]
    ELSE [result |-> "PartialFillsNotSupported", order |-> order]

\* FusionOrder::is_fully_filled
is_fully_filled(order) ==
    IF supports_partial_fills(order)
    THEN order.partial_fill_data.remaining_amount = 0
    ELSE order.status = "Completed"

\* FusionOrder::get_remaining_amount
get_remaining_amount(order) ==
    IF supports_partial_fills(order) THEN order.partial_fill_data.remaining_amount
    ELSE IF order.status = "Completed" THEN 0
    ELSE order.making_amount

\* partially_fill_order: the cumulative filled percentage ...
current_fill_percentage(order) ==
    IF supports_partial_fills(order)
    THEN WrapMul(order.partial_fill_data.filled_amount, 100) \div order.making_amount
    ELSE 0

\* ... and the index of the secret the fill requires.
required_secret_index(order) ==
    WrapMul(current_fill_percentage(order), Len(order.secret_hashes)) \div 100

\* FusionOrder::enable_partial_fills, on the stored order.
enable_partial_fills(order_id, parts_amount) ==
    LET order == fusion_orders[order_id]
    IN  /\ order_id \in DOMAIN fusion_orders
        /\ store_fusion_order([order EXCEPT !.partial_fill_data =
                                  PartialFillData_new(parts_amount, order.making_amount)])
        /\ fusion_resp' = [op |-> "enable_partial_fills", order_id |-> order_id,
                           result |-> "Ok"]
        /\ UNCHANGED <<fusion_calls, now, outsideFusion>>

\* FusionOrder::add_secret_hash, on the stored order.
add_secret_hash(order_id, secret_hash) ==
    LET order == fusion_orders[order_id]
    IN  /\ order_id \in DOMAIN fusion_orders
        /\ store_fusion_order([order EXCEPT !.secret_hashes = Append(@, secret_hash)])
        /\ fusion_resp' = [op |-> "add_secret_hash", order_id |-> order_id,
                           result |-> "Ok"]
        /\ UNCHANGED <<fusion_calls, now, outsideFusion>>

\* partially_fill_order (it has no await).  `build` says what the build does
\* when filled_amount * 100 passes the u64 range.
partially_fill_order(order_id, fill_amount, build) ==
    LET order == fusion_orders[order_id]
        fill == [fill_amount |-> fill_amount, secret_index |-> required_secret_index(order)]
        added == add_partial_fill(order, fill)
        completed == IF is_fully_filled(added.order)
                     THEN [added.order EXCEPT !.status = "Completed",
                                              !.fusion_state = "Completed"]
                     ELSE added.order
        resp(result) == [op |-> "partially_fill_order", order_id |-> order_id,
                         fill_amount |-> fill_amount, result |-> result]
    IN  /\ IF order_id \notin DOMAIN fusion_orders THEN FusionReturns(resp("OrderNotFound"))
           ELSE IF ~supports_partial_fills(order)
           THEN FusionReturns(resp("PartialFillsNotSupported"))
           ELSE IF fill_amount = 0 \/ fill_amount > get_remaining_amount(order)
           THEN FusionReturns(resp("InvalidFillAmount"))
           ELSE IF MulOverflows(order.partial_fill_data.filled_amount, 100)
                   /\ build = "panic"
           THEN FusionReturns(resp("Trap"))
           ELSE IF added.result # "Ok" THEN FusionReturns(resp(added.result))
           ELSE FusionStores(completed, resp("Ok"))
        /\ UNCHANGED <<now, outsideFusion>>

\* FusionOrder::add_partial_fill applied to the stored order as it stands: what
\* the method returns and the partial-fill data it leaves, nothing being stored.
apply_add_partial_fill(order_id, fill) ==
    LET order == fusion_orders[order_id]
    IN  /\ order_id \in DOMAIN fusion_orders
        /\ fusion_resp' = [op |-> "add_partial_fill", order_id |-> order_id,
                           fill |-> fill,
                           before |-> order.partial_fill_data,
                           result |-> add_partial_fill(order, fill).result,
                           after |-> add_partial_fill(order, fill).order.partial_fill_data]
        /\ UNCHANGED <<fusion_orders, fusion_calls, now, outsideFusion>>

(***************************************************************************)
(* limit-order/src/utils.rs: the order state kept by order hash.  The file *)
(* is a set of public functions over its own thread-local stores; lib.rs   *)
(* does not declare it as a module, and no function of it composes the     *)
(* others.  Each function is modelled on its own.                          *)
(***************************************************************************)
\* The decimal digits as text.
DigitTexts == <<"0", "1", "2", "3", "4", "5", "6", "7", "8", "9">>

RECURSIVE to_string(_)
\* u64 formatted with {}: the decimal digits, most significant first.
to_string(n) ==
    IF n < 10 THEN <<DigitTexts[n + 1]>>
    ELSE to_string(n \div 10) \o <<DigitTexts[(n % 10) + 1]>>

\* hash_order: SHA-256 of the fields formatted one after the other with no
\* separator.  The digest is one-to-one on the formatted text, so the hash is
\* the text: the digits of salt, the four principals' texts (fixed here), the
\* digits of making_amount, taking_amount and expiration.
hash_order(order) ==
    to_string(order.salt) \o <<"maker", "receiver", "maker_asset", "taker_asset">>
        \o to_string(order.making_amount) \o to_string(order.taking_amount)
        \o to_string(order.expiration)

\* validate_order_signature: a signature is its length here.
validate_order_signature(signature) ==
    IF signature = 0 THEN "InvalidSignature" ELSE "Ok"

\* validate_order_fillable
validate_order_fillable(order, order_hash) ==
    IF order_hash \in CANCELLED_ORDERS THEN "OrderCancelled"
    ELSE IF order_hash \in FILLED_ORDERS THEN "OrderAlreadyFilled"
    ELSE IF order.expiration <= now THEN "OrderExpired"
    ELSE "Ok"

\* validate_fill_amount
validate_fill_amount(order, amount) ==
    IF amount = 0 THEN "InvalidAmount"
    ELSE IF amount > order.taking_amount THEN "InsufficientAmount"
    ELSE "Ok"

\* execute_atomic_fill: the making amount in proportion to the taking amount paid.
execute_atomic_fill(order, amount) ==
    [making_amount |-> WrapMul(order.making_amount, amount) \div order.taking_amount,
     taking_amount |-> amount]

\* get_remaining_amount of utils.rs: the entry of REMAINING_AMOUNTS, 0 without one.
utils_get_remaining_amount(order_hash) ==
    IF order_hash \in DOMAIN REMAINING_AMOUNTS THEN REMAINING_AMOUNTS[order_hash] ELSE 0

\* update_order_state: add the fill to the order's entry of REMAINING_AMOUNTS
\* and mark a stored order filled once the entry reaches its making_amount.
update_order_state(order_hash, making_amount) ==
    LET total_filled == WrapAdd(utils_get_remaining_amount(order_hash), making_amount)
    IN  /\ REMAINING_AMOUNTS' = Insert(REMAINING_AMOUNTS, order_hash, total_filled)
        /\ FILLED_ORDERS' =
               IF order_hash \in DOMAIN ORDERS
                  /\ total_filled >= ORDERS[order_hash].making_amount
               THEN FILLED_ORDERS \cup {order_hash}
               ELSE FILLED_ORDERS
        /\ utils_resp' = [op |-> "update_order_state", order_hash |-> order_hash,
                          making_amount |-> making_amount, result |-> "Ok"]
        /\ UNCHANGED <<ORDERS, CANCELLED_ORDERS, now, outsideUtils>>

\* store_order
store_order(order) ==
    /\ ORDERS' = Insert(ORDERS, hash_order(order), order)
    /\ utils_resp' = [op |-> "store_order", order_hash |-> hash_order(order), result |-> "Ok"]
    /\ UNCHANGED <<FILLED_ORDERS, CANCELLED_ORDERS, REMAINING_AMOUNTS, now, outsideUtils>>

\* cancel_order_internal
utils_cancel_order_internal(order_hash) ==
    /\ CANCELLED_ORDERS' = CANCELLED_ORDERS \cup {order_hash}
    /\ utils_resp' = [op |-> "cancel_order_internal", order_hash |-> order_hash,
                      result |-> "Ok"]
    /\ UNCHANGED <<ORDERS, FILLED_ORDERS, REMAINING_AMOUNTS, now, outsideUtils>>

(***************************************************************************)
(* limit-order/src/lib.rs: the canister's fill_order and its own private   *)
(* helpers.  validate_order_signature accepts every signature,             *)
(* validate_order_fillable tests the expiration and the two amounts,       *)
(* update_order_state does nothing: a fill answers with the amounts and    *)
(* the order hash and leaves every store as it was.                        *)
(***************************************************************************)
\* compute_order_hash: SHA-256 over the fields' fixed-width bytes, one-to-one
\* on the fields.
compute_order_hash(order) ==
    <<order.salt, order.making_amount, order.taking_amount, order.expiration>>

\* fill_order of lib.rs
lop_fill_order(order, signature, amount) ==
    LET fillable ==
            IF order.expiration <= now THEN "OrderExpired"
            ELSE IF order.making_amount = 0 \/ order.taking_amount = 0
            THEN "InvalidAmount"
            ELSE "Ok"
        fill_amount ==
            IF amount = 0 THEN "InvalidAmount"
            ELSE IF amount > order.taking_amount THEN "InsufficientAmount"
            ELSE "Ok"
        result == IF fillable # "Ok" THEN fillable ELSE fill_amount
    IN  /\ utils_resp' =
               IF result = "Ok"
               THEN [op |-> "fill_order", result |-> "Ok",
                     making_amount |->
                         WrapMul(order.making_amount, amount) \div order.taking_amount,
                     taking_amount |-> amount,
                     order_hash |-> compute_order_hash(order)]
               ELSE [op |-> "fill_order", result |-> result]
        /\ UNCHANGED <<ORDERS, FILLED_ORDERS, CANCELLED_ORDERS, REMAINING_AMOUNTS,
                       now, outsideUtils>>

(***************************************************************************)
(* The three timelock tests: backend/src/escrows.rs get_timelock_status    *)
(* (modelled above), escrow_manager/src/timelock.rs is_timelock_expired    *)
(* and limit-order/src/hashlock_timelock.rs TimelockManager, which keeps   *)
(* the timelock of an order in TIMELOCK_STORE.                             *)
(***************************************************************************)
\* escrow_manager is_timelock_expired
is_timelock_expired(timelock, current_time) == current_time >= timelock

\* TimelockManager::store_timelock
store_timelock(order_id, timelock) ==
    /\ TIMELOCK_STORE' = Insert(TIMELOCK_STORE, order_id,
                                [order_id |-> order_id, timelock |-> timelock,
                                 created_at |-> now, expires_at |-> timelock])
    /\ tl_resp' = [op |-> "store_timelock", order_id |-> order_id, timelock |-> timelock]
    /\ UNCHANGED <<now, cross_chain_escrows, outsideLocks>>

\* TimelockManager::is_timelock_expired
TimelockManager_is_timelock_expired(order_id, current_time) ==
    IF order_id \in DOMAIN TIMELOCK_STORE
    THEN current_time > TIMELOCK_STORE[order_id].expires_at
    ELSE TRUE

\* The three tests applied at the current clock.
GetTimelockStatus(timelock) ==
    /\ tl_resp' = [op |-> "get_timelock_status", timelock |-> timelock,
                   current_time |-> now,
                   expired |-> get_timelock_status(timelock, now) = "Expired"]
    /\ UNCHANGED <<now, cross_chain_escrows, TIMELOCK_STORE, outsideLocks>>

IsTimelockExpired(timelock) ==
    /\ tl_resp' = [op |-> "is_timelock_expired", timelock |-> timelock,
                   current_time |-> now,
                   expired |-> is_timelock_expired(timelock, now)]
    /\ UNCHANGED <<now, cross_chain_escrows, TIMELOCK_STORE, outsideLocks>>

TimelockManagerIsTimelockExpired(order_id) ==
    /\ order_id \in DOMAIN TIMELOCK_STORE
    /\ tl_resp' = [op |-> "TimelockManager::is_timelock_expired",
                   timelock |-> TIMELOCK_STORE[order_id].expires_at,
                   current_time |-> now,
                   expired |-> TimelockManager_is_timelock_expired(order_id, now)]
    /\ UNCHANGED <<now, cross_chain_escrows, TIMELOCK_STORE, outsideLocks>>

(***************************************************************************)
(* escrow/src/lib.rs, memory.rs: the escrow canister, which locks ICP for  *)
(* a cross-chain swap.  lock_icp_for_swap, claim_locked_icp and            *)
(* refund_locked_icp await a ledger transfer; the message is suspended     *)
(* there and other messages run before the answer arrives.                 *)
(***************************************************************************)
EscrowCallSlots == 1..MaxEscrowCalls

EscrowFreeSlots == {c \in EscrowCallSlots : escrow_calls[c].pc = "idle"}

EscrowNextSlot == CHOOSE c \in EscrowFreeSlots : \A d \in EscrowFreeSlots : c <= d

\* generate_escrow_id: "escrow_{order_id}_{timestamp}"
generate_escrow_id(order_id, timestamp) == <<"escrow", order_id, timestamp>>

FusionEscrowIds == {generate_escrow_id(1, t) : t \in 0..MaxTime}

FusionEscrowStatusOf(escrow_id) ==
    IF escrow_id \in DOMAIN FUSION_ESCROWS THEN FUSION_ESCROWS[escrow_id].status
    ELSE "NotFound"

EthReceipts == {"", "0xreceipt"}

\* The answers of the ledger to icrc1_transfer, as transfer_tokens_to_escrow
\* and transfer_tokens_from_escrow map them.
TransferToEscrowAnswers == {"Ok", "InsufficientBalance", "TransferFailed", "SystemError"}

TransferFromEscrowAnswers == {"Ok", "TransferFailed", "SystemError"}

\* memory::store_fusion_escrow
store_fusion_escrow(store, escrow) == Insert(store, escrow.id, escrow)

\* fund_escrow: the result; the status is not looked at.
fund_escrow_result(store, escrow_id) ==
    IF escrow_id \notin DOMAIN store THEN "EscrowNotFound"
    ELSE "Ok"

\* fund_escrow: the store it leaves.
fund_escrow_store(store, escrow_id) ==
    IF fund_escrow_result(store, escrow_id) = "Ok"
    THEN store_fusion_escrow(store, [store[escrow_id] EXCEPT !.status = "Funded"])
    ELSE store

\* fund_escrow as the update call anyone can make.
fund_escrow(caller, escrow_id) ==
    /\ FUSION_ESCROWS' = fund_escrow_store(FUSION_ESCROWS, escrow_id)
    /\ fusion_escrow_resp' = [op |-> "fund_escrow", caller |-> caller, id |-> escrow_id,
                              pre_status |-> FusionEscrowStatusOf(escrow_id),
                              result |-> fund_escrow_result(FUSION_ESCROWS, escrow_id)]
    /\ UNCHANGED <<now, escrow_calls, outsideFusionEscrow>>

\* lock_icp_for_swap up to the await of transfer_tokens_to_escrow.
lock_icp_for_swap(caller, order_id, amount, resolver, timelock) ==
    LET escrow_id == generate_escrow_id(order_id, now)
        escrow == [id |-> escrow_id, order_id |-> order_id, amount |-> amount,
                   locked_by |-> caller, resolver |-> resolver, timelock |-> timelock,
                   eth_receipt |-> <<>>, locked_at |-> now, status |-> "Created"]
    IN  IF timelock <= now
        THEN /\ fusion_escrow_resp' = [op |-> "lock_icp_for_swap", caller |-> caller,
                                       id |-> escrow_id,
                                       pre_status |-> FusionEscrowStatusOf(escrow_id),
                                       result |-> "TimelockExpired"]
             /\ UNCHANGED <<now, FUSION_ESCROWS, escrow_calls, outsideFusionEscrow>>
        ELSE /\ EscrowFreeSlots # {}
             /\ FUSION_ESCROWS' = store_fusion_escrow(FUSION_ESCROWS, escrow)
             /\ escrow_calls' = [escrow_calls EXCEPT ![EscrowNextSlot] =
                                    [pc |-> "lock_transfer", caller |-> caller,
                                     escrow |-> escrow,
                                     pre_status |-> FusionEscrowStatusOf(escrow_id)]]
             /\ UNCHANGED <<now, fusion_escrow_resp, outsideFusionEscrow>>

\* lock_icp_for_swap after the await: fund_escrow on success, the error otherwise.
lock_icp_for_swap_transferred(c, answer) ==
    LET call == escrow_calls[c]
        result == IF answer # "Ok" THEN answer
                  ELSE fund_escrow_result(FUSION_ESCROWS, call.escrow.id)
    IN  /\ call.pc = "lock_transfer"
        /\ FUSION_ESCROWS' = IF answer = "Ok"
                             THEN fund_escrow_store(FUSION_ESCROWS, call.escrow.id)
                             ELSE FUSION_ESCROWS
        /\ escrow_calls' = [escrow_calls EXCEPT ![c] = Idle]
        /\ fusion_escrow_resp' = [op |-> "lock_icp_for_swap", caller |-> call.caller,
                                  id |-> call.escrow.id, pre_status |-> call.pre_status,
                                  result |-> result]
        /\ UNCHANGED <<now, outsideFusionEscrow>>

\* The answers of the orderbook to get_fusion_order_status, as
\* verify_order_direction and verify_caller_is_maker read them: the call is
\* rejected, no order has the id, or the order with its direction and maker.
OrderStatusAnswers ==
    {[kind |-> kind, icp_to_eth |-> icp_to_eth, maker |-> maker] :
        kind \in {"Rejected", "None", "Some"},
        icp_to_eth \in BOOLEAN,
        maker \in {"alice", "bob"}}

\* verify_order_direction: the error, or whether the order goes from ICP to ETH.
verify_order_direction(answer) ==
    IF answer.kind = "Rejected" THEN [err |-> "SystemError", ok |-> FALSE]
    ELSE IF answer.kind = "None" THEN [err |-> "OrderNotFound", ok |-> FALSE]
    ELSE [err |-> "Ok", ok |-> answer.icp_to_eth]

\* verify_caller_is_maker: the error, or whether the caller made the order.
verify_caller_is_maker(answer, caller) ==
    IF answer.kind = "Rejected" THEN [err |-> "SystemError", ok |-> FALSE]
    ELSE IF answer.kind = "None" THEN [err |-> "OrderNotFound", ok |-> FALSE]
    ELSE [err |-> "Ok", ok |-> answer.maker = caller]

\* A lock_icp_for_order call returns an error and stores nothing.
LockForOrderFails(calls_after, caller, order_id, result) ==
    /\ fusion_escrow_resp' = [op |-> "lock_icp_for_order", caller |-> caller,
                              order_id |-> order_id, result |-> result]
    /\ escrow_calls' = calls_after
    /\ UNCHANGED <<now, FUSION_ESCROWS, outsideFusionEscrow>>

\* lock_icp_for_order up to the await of verify_order_direction: the timelock
\* is compared with the time of entry.
lock_icp_for_order(caller, order_id, amount, timelock) ==
    IF timelock <= now
    THEN LockForOrderFails(escrow_calls, caller, order_id, "TimelockExpired")
    ELSE /\ EscrowFreeSlots # {}
         /\ escrow_calls' = [escrow_calls EXCEPT ![EscrowNextSlot] =
                                [pc |-> "lock_order_direction", caller |-> caller,
                                 order_id |-> order_id, amount |-> amount,
                                 timelock |-> timelock, current_time |-> now]]
         /\ UNCHANGED <<now, FUSION_ESCROWS, fusion_escrow_resp, outsideFusionEscrow>>

\* lock_icp_for_order from the answer of verify_order_direction to the await of
\* verify_caller_is_maker.
lock_icp_for_order_direction(c, answer) ==
    LET call == escrow_calls[c]
        verified == verify_order_direction(answer)
        freed == [escrow_calls EXCEPT ![c] = Idle]
    IN  /\ call.pc = "lock_order_direction"
        /\ IF verified.err # "Ok"
           THEN LockForOrderFails(freed, call.caller, call.order_id, verified.err)
           ELSE IF ~verified.ok
           THEN LockForOrderFails(freed, call.caller, call.order_id, "InvalidState")
           ELSE /\ escrow_calls' = [escrow_calls EXCEPT ![c].pc = "lock_order_maker"]
                /\ UNCHANGED <<now, FUSION_ESCROWS, fusion_escrow_resp,
                               outsideFusionEscrow>>

\* lock_icp_for_order from the answer of verify_caller_is_maker to the await of
\* transfer_tokens_to_escrow: the escrow id carries the time of this step,
\* locked_at the time of entry; the resolver is the anonymous principal.
lock_icp_for_order_maker(c, answer) ==
    LET call == escrow_calls[c]
        verified == verify_caller_is_maker(answer, call.caller)
        freed == [escrow_calls EXCEPT ![c] = Idle]
        escrow_id == generate_escrow_id(call.order_id, now)
        escrow == [id |-> escrow_id, order_id |-> call.order_id, amount |-> call.amount,
                   locked_by |-> call.caller, resolver |-> Anonymous,
                   timelock |-> call.timelock, eth_receipt |-> <<>>,
                   locked_at |-> call.current_time, status |-> "Created"]
    IN  /\ call.pc = "lock_order_maker"
        /\ IF verified.err # "Ok"
           THEN LockForOrderFails(freed, call.caller, call.order_id, verified.err)
           ELSE IF ~verified.ok
           THEN LockForOrderFails(freed, call.caller, call.order_id, "Unauthorized")
           ELSE /\ FUSION_ESCROWS' = store_fusion_escrow(FUSION_ESCROWS, escrow)
                /\ escrow_calls' = [escrow_calls EXCEPT ![c] =
                                       [pc |-> "lock_order_transfer",
                                        caller |-> call.caller, escrow |-> escrow,
                                        pre_status |-> FusionEscrowStatusOf(escrow_id)]]
                /\ UNCHANGED <<now, fusion_escrow_resp, outsideFusionEscrow>>

\* lock_icp_for_order after the transfer: fund_escrow on success, the error
\* otherwise.
lock_icp_for_order_transferred(c, answer) ==
    LET call == escrow_calls[c]
        result == IF answer # "Ok" THEN answer
                  ELSE fund_escrow_result(FUSION_ESCROWS, call.escrow.id)
    IN  /\ call.pc = "lock_order_transfer"
        /\ FUSION_ESCROWS' = IF answer = "Ok"
                             THEN fund_escrow_store(FUSION_ESCROWS, call.escrow.id)
                             ELSE FUSION_ESCROWS
        /\ escrow_calls' = [escrow_calls EXCEPT ![c] = Idle]
        /\ fusion_escrow_resp' = [op |-> "lock_icp_for_order", caller |-> call.caller,
                                  order_id |-> call.escrow.order_id,
                                  id |-> call.escrow.id, pre_status |-> call.pre_status,
                                  result |-> result]
        /\ UNCHANGED <<now, outsideFusionEscrow>>

\* History: the transfers out of an escrow that the ledger carried out, in
\* the order of their answers.
TransfersOutOf(escrow_id) ==
    IF escrow_id \in DOMAIN transfers_out THEN transfers_out[escrow_id] ELSE <<>>

TransferredOut(escrow_id, kind) ==
    Insert(transfers_out, escrow_id, Append(TransfersOutOf(escrow_id), kind))

\* The checks of claim_locked_icp on an escrow that exists.
claim_locked_icp_result(escrow, caller, eth_receipt, current_time) ==
    IF caller # escrow.resolver THEN "Unauthorized"
    ELSE IF escrow.status # "Funded" THEN "InvalidState"
    ELSE IF current_time >= escrow.timelock THEN "TimelockExpired"
    ELSE IF eth_receipt = "" THEN "InvalidReceipt"
    ELSE "Ok"

\* claim_locked_icp up to the await of transfer_tokens_from_escrow.
claim_locked_icp(caller, escrow_id, eth_receipt) ==
    LET result == IF escrow_id \notin DOMAIN FUSION_ESCROWS THEN "EscrowNotFound"
                  ELSE claim_locked_icp_result(FUSION_ESCROWS[escrow_id], caller,
                                               eth_receipt, now)
    IN  IF result # "Ok"
        THEN /\ fusion_escrow_resp' = [op |-> "claim_locked_icp", caller |-> caller,
                                       id |-> escrow_id,
                                       pre_status |-> FusionEscrowStatusOf(escrow_id),
                                       result |-> result]
             /\ UNCHANGED <<now, FUSION_ESCROWS, escrow_calls, outsideFusionEscrow>>
        ELSE /\ EscrowFreeSlots # {}
             /\ escrow_calls' = [escrow_calls EXCEPT ![EscrowNextSlot] =
                                    [pc |-> "claim_transfer", caller |-> caller,
                                     escrow |-> [FUSION_ESCROWS[escrow_id] EXCEPT
                                                    !.eth_receipt = <<eth_receipt>>],
                                     pre_status |-> FusionEscrowStatusOf(escrow_id)]]
             /\ UNCHANGED <<now, FUSION_ESCROWS, fusion_escrow_resp, outsideFusionEscrow>>

\* claim_locked_icp after the await: the escrow read before it is stored as Claimed.
claim_locked_icp_transferred(c, answer) ==
    LET call == escrow_calls[c]
    IN  /\ call.pc = "claim_transfer"
        /\ FUSION_ESCROWS' = IF answer = "Ok"
                             THEN store_fusion_escrow(FUSION_ESCROWS,
                                      [call.escrow EXCEPT !.status = "Claimed"])
                             ELSE FUSION_ESCROWS
        /\ escrow_calls' = [escrow_calls EXCEPT ![c] = Idle]
        /\ fusion_escrow_resp' = [op |-> "claim_locked_icp", caller |-> call.caller,
                                  id |-> call.escrow.id, pre_status |-> call.pre_status,
                                  result |-> answer]
        /\ transfers_out' = IF answer = "Ok"
                            THEN TransferredOut(call.escrow.id, "claim")
                            ELSE transfers_out
        /\ UNCHANGED <<now, outsideEscrowTransfers>>

\* The checks of refund_locked_icp on an escrow that exists.
refund_locked_icp_result(escrow, caller, current_time) ==
    IF escrow.locked_by # caller THEN "Unauthorized"
    ELSE IF escrow.status # "Funded" THEN "InvalidState"
    ELSE IF current_time < escrow.timelock THEN "TimelockNotExpired"
    ELSE "Ok"

\* refund_locked_icp up to the await of transfer_tokens_from_escrow.
refund_locked_icp(caller, escrow_id) ==
    LET result == IF escrow_id \notin DOMAIN FUSION_ESCROWS THEN "EscrowNotFound"
                  ELSE refund_locked_icp_result(FUSION_ESCROWS[escrow_id], caller, now)
    IN  IF result # "Ok"
        THEN /\ fusion_escrow_resp' = [op |-> "refund_locked_icp", caller |-> caller,
                                       id |-> escrow_id,
                                       pre_status |-> FusionEscrowStatusOf(escrow_id),
                                       result |-> result]
             /\ UNCHANGED <<now, FUSION_ESCROWS, escrow_calls, outsideFusionEscrow>>
        ELSE /\ EscrowFreeSlots # {}
             /\ escrow_calls' = [escrow_calls EXCEPT ![EscrowNextSlot] =
                                    [pc |-> "refund_transfer", caller |-> caller,
                                     escrow |-> FUSION_ESCROWS[escrow_id],
                                     pre_status |-> FusionEscrowStatusOf(escrow_id)]]
             /\ UNCHANGED <<now, FUSION_ESCROWS, fusion_escrow_resp, outsideFusionEscrow>>

\* refund_locked_icp after the await: the escrow read before it is stored as Refunded.
refund_locked_icp_transferred(c, answer) ==
    LET call == escrow_calls[c]
    IN  /\ call.pc = "refund_transfer"
        /\ FUSION_ESCROWS' = IF answer = "Ok"
                             THEN store_fusion_escrow(FUSION_ESCROWS,
                                      [call.escrow EXCEPT !.status = "Refunded"])
                             ELSE FUSION_ESCROWS
        /\ escrow_calls' = [escrow_calls EXCEPT ![c] = Idle]
        /\ fusion_escrow_resp' = [op |-> "refund_locked_icp", caller |-> call.caller,
                                  id |-> call.escrow.id, pre_status |-> call.pre_status,
                                  result |-> answer]
        /\ transfers_out' = IF answer = "Ok"
                            THEN TransferredOut(call.escrow.id, "refund")
                            ELSE transfers_out
        /\ UNCHANGED <<now, outsideEscrowTransfers>>

(***************************************************************************)
(* backend/src/escrows.rs get_escrow_status: the query that observes an    *)
(* escrow.  It returns the stored record as it is.                         *)
(***************************************************************************)
get_escrow_status(escrow_id) ==
    /\ escrow_resp' = [op |-> "get_escrow_status", id |-> escrow_id, at |-> now,
                       pre_state |-> StateOf(escrow_id),
                       timelock |-> IF escrow_id \in DOMAIN escrows
                                    THEN escrows[escrow_id].timelock ELSE 0,
                       result |-> IF escrow_id \in DOMAIN escrows
                                  THEN escrows[escrow_id].state ELSE "EscrowNotFound"]
    /\ UNCHANGED <<now, escrows, outsideEscrow>>

(***************************************************************************)
(* orderbook/src/types.rs PriceCurve::calculate_price.  Of a PriceSegment  *)
(* the function reads start_time, end_time, start_price and end_price.     *)
(* The u64 subtractions and the multiplication wrap in a build without     *)
(* overflow checks and panic in a build with them.                         *)
(***************************************************************************)
PricePanic == [ok |-> FALSE, price |-> 0]

PriceOf(price) == [ok |-> TRUE, price |-> price]

\* The price inside one segment.
segment_price(segment, elapsed_time, build) ==
    LET segment_elapsed == elapsed_time - segment.start_time
        segment_duration == segment.end_time - segment.start_time
        price_difference == segment.start_price - segment.end_price
        product == WrapSub(segment.start_price, segment.end_price) * segment_elapsed
        price_decrease == WrapMul(WrapSub(segment.start_price, segment.end_price),
                                  segment_elapsed) \div segment_duration
    IN  IF segment_duration = 0 THEN PriceOf(segment.start_price)
        ELSE IF build = "panic"
                /\ \/ price_difference < 0
                   \/ product >= U64Modulus
                   \/ segment.start_price < price_decrease
        THEN PricePanic
        ELSE PriceOf(WrapSub(segment.start_price, price_decrease))

\* PriceCurve::calculate_price
calculate_price(curve, elapsed_time, build) ==
    LET segments == curve.segments
        matching == {i \in 1..Len(segments) :
                        /\ elapsed_time >= segments[i].start_time
                        /\ elapsed_time < segments[i].end_time}
        first == CHOOSE i \in matching : \A j \in matching : i <= j
    IN  IF elapsed_time >= curve.total_duration
        THEN PriceOf(IF Len(segments) = 0 THEN 0 ELSE segments[Len(segments)].end_price)
        ELSE IF matching # {}
        THEN segment_price(segments[first], elapsed_time, build)
        ELSE PriceOf(IF Len(segments) = 0 THEN 0 ELSE segments[1].start_price)

\* calculate_price applied to a curve, as calculate_current_price does.
CalculatePrice(curve, elapsed_time, build) ==
    /\ fusion_resp' = [op |-> "calculate_price", curve |-> curve,
                       elapsed_time |-> elapsed_time, build |-> build,
                       result |-> calculate_price(curve, elapsed_time, build)]
    /\ UNCHANGED <<now, fusion_orders, fusion_calls, outsideFusion>>

(***************************************************************************)
(* orderbook/src/types.rs: the Dutch auction of a FusionOrder.  Of the     *)
(* order the price reads auction_start_timestamp, auction_start_rate,      *)
(* minimum_return_amount and price_curve.  FusionOrder::new computes them  *)
(* with current_time = 0 and auction_duration fixed; create_order sets     *)
(* none of them afterwards.  The price compares the nanoseconds since      *)
(* auction_start_timestamp with the times of the curve, so the waiting     *)
(* period and auction_duration are in the same unit here: 600 ns.  The     *)
(* auction of FusionOrder::new lasts 3600 ns, a fraction of a minute.      *)
(***************************************************************************)
WaitingPeriodNs == 500000000    \* 300_000_000_000 ns in units of 600 ns

AuctionDuration == 6            \* auction_duration = 3600, in units of 600 ns

\* PriceCurve::default_curve (decrease_rate, which no price reads, left out)
default_curve(spot_price, duration) ==
    [segments |->
        <<[start_time |-> 0, end_time |-> duration \div 3,
           start_price |-> WrapAdd(spot_price, WrapMul(spot_price, 20) \div 100),
           end_price |-> spot_price],
          [start_time |-> duration \div 3, end_time |-> duration,
           start_price |-> spot_price,
           end_price |-> WrapMul(spot_price, 95) \div 100]>>,
     total_duration |-> duration]

\* FusionOrder::new: the Dutch auction parameters.
auction_parameters(taking_amount) ==
    [taking_amount |-> taking_amount,
     auction_start_timestamp |-> 0 + WaitingPeriodNs,
     auction_start_rate |-> WrapAdd(taking_amount, WrapMul(taking_amount, 20) \div 100),
     minimum_return_amount |-> WrapMul(taking_amount, 95) \div 100,
     price_curve |-> default_curve(taking_amount, AuctionDuration)]

\* update_price_curve: the curve the caller hands in replaces the order's.
with_price_curve(order, new_curve) == [order EXCEPT !.price_curve = new_curve]

\* Mutant: the price of the curve is returned as it is, without the floor.
calculate_current_price_unclamped(order, current_time, build) ==
    LET elapsed_time == current_time - order.auction_start_timestamp
        calculated == calculate_price(order.price_curve, elapsed_time, build)
    IN  IF current_time < order.auction_start_timestamp
        THEN PriceOf(order.auction_start_rate)
        ELSE calculated

\* FusionOrder::calculate_current_price
calculate_current_price(order, current_time, build) ==
    LET elapsed_time == current_time - order.auction_start_timestamp
        calculated == calculate_price(order.price_curve, elapsed_time, build)
    IN  IF current_time < order.auction_start_timestamp
        THEN PriceOf(order.auction_start_rate)
        ELSE IF ~calculated.ok THEN PricePanic
        ELSE PriceOf(IF calculated.price >= order.minimum_return_amount
                     THEN calculated.price ELSE order.minimum_return_amount)

\* calculate_current_price applied to an order at a time.
CalculateCurrentPrice(order, current_time, build) ==
    /\ fusion_resp' = [op |-> "calculate_current_price", order |-> order,
                       current_time |-> current_time, build |-> build,
                       result |-> calculate_current_price(order, current_time, build)]
    /\ UNCHANGED <<now, fusion_orders, fusion_calls, outsideFusion>>

(***************************************************************************)
(* backend/src/lib.rs, backend/src/memory.rs: the upgrade hooks.  An       *)
(* upgrade runs pre_upgrade on the old heap, replaces the heap by the      *)
(* thread_local! initialisers and runs post_upgrade on it; only stable     *)
(* memory is carried over.  The canister is stopped for the upgrade, so no *)
(* call is suspended.                                                      *)
(***************************************************************************)
\* Stable memory nothing has been saved to.
NoSnapshot == [saved |-> FALSE]

\* SystemStats::default()
SystemStats_default == [orders_created |-> 0, orders_filled |-> 0, orders_cancelled |-> 0]

\* The elements of a set as a Vec, in the order the iteration happens to give.
RECURSIVE Collected(_)
Collected(set) ==
    IF set = {} THEN <<>>
    ELSE LET x == CHOOSE y \in set : TRUE
         IN  <<x>> \o Collected(set \ {x})

\* memory::serialize_limit_order_state: the five parts of the limit order state.
serialize_limit_order_state ==
    <<Collected({<<id, orders[id]>> : id \in DOMAIN orders}),
      Collected(filled_orders),
      Collected(cancelled_orders),
      order_counter,
      stats>>

\* memory::deserialize_limit_order_state: each store is cleared and refilled.
deserialize_limit_order_state(orders_in, filled, cancelled, counter, stats_in) ==
    /\ orders' = [id \in {orders_in[i][1] : i \in 1..Len(orders_in)} |->
                     LET last == CHOOSE i \in 1..Len(orders_in) :
                                     /\ orders_in[i][1] = id
                                     /\ \A j \in (i + 1)..Len(orders_in) : orders_in[j][1] # id
                     IN  orders_in[last][2]]
    /\ filled_orders' = {filled[i] : i \in 1..Len(filled)}
    /\ cancelled_orders' = {cancelled[i] : i \in 1..Len(cancelled)}
    /\ order_counter' = counter
    /\ stats' = stats_in

\* ic_cdk::storage::stable_save: the state is written, or the save fails and
\* stable memory holds what it held or nothing that can be read back.
StableSaveAnswers == {"Ok", "Err"}

stable_save(memory, state, answer, keeps) ==
    IF answer = "Ok" THEN [saved |-> TRUE, state |-> state]
    ELSE IF keeps THEN memory
    ELSE NoSnapshot

\* ic_cdk::storage::stable_restore
stable_restore(memory) ==
    IF memory.saved THEN [ok |-> TRUE, state |-> memory.state] ELSE [ok |-> FALSE]

\* pre_upgrade: a failed save is logged and the upgrade proceeds.
pre_upgrade(answer, keeps) ==
    stable_memory' = stable_save(stable_memory, serialize_limit_order_state, answer, keeps)

\* Mutant: a fresh deployment starts its order counter at 1.
post_upgrade_fresh_counter_one(memory) ==
    LET restored == stable_restore(memory)
    IN  IF restored.ok
        THEN deserialize_limit_order_state(restored.state[1], restored.state[2],
                                           restored.state[3], restored.state[4],
                                           restored.state[5])
        ELSE deserialize_limit_order_state(<<>>, <<>>, <<>>, 1, SystemStats_default)

\* post_upgrade: the saved state is restored, or the empty state when
\* nothing can be read.
post_upgrade(memory) ==
    LET restored == stable_restore(memory)
    IN  IF restored.ok
        THEN deserialize_limit_order_state(restored.state[1], restored.state[2],
                                           restored.state[3], restored.state[4],
                                           restored.state[5])
        ELSE deserialize_limit_order_state(<<>>, <<>>, <<>>, 0, SystemStats_default)

\* The backend state an upgrade is meant to carry over.
BackendState ==
    [escrows |-> escrows, source_escrows |-> source_escrows,
     destination_escrows |-> destination_escrows, orders |-> orders,
     filled_orders |-> filled_orders, cancelled_orders |-> cancelled_orders,
     order_counter |-> order_counter, stats |-> stats]

\* One upgrade of the backend canister.  limit-order/src/lib.rs has the same
\* two hooks over its copy of memory.rs.
Upgrade(answer, keeps) ==
    /\ \A c \in CallSlots : calls[c] = Idle
    /\ upgrade_resp.upgrades < MaxUpgrades
    /\ pre_upgrade(answer, keeps)
    /\ escrows' = <<>>
    /\ source_escrows' = <<>>
    /\ destination_escrows' = <<>>
    /\ post_upgrade(stable_memory')
    /\ upgrade_resp' = [op |-> "upgrade", upgrades |-> upgrade_resp.upgrades + 1,
                        save |-> answer, restored |-> stable_restore(stable_memory').ok,
                        counter_before |-> order_counter]
    /\ UNCHANGED <<now, calls, order_resp, fill_ok, escrow_resp, source_resp,
                   destination_resp, timelockVars, fusionVars, utilsVars, lockVars,
                   fusionEscrowVars, historyVars, orderbook_stable_memory>>

(***************************************************************************)
(* orderbook/src/lib.rs, orderbook/src/memory.rs: the upgrade hooks of the *)
(* orderbook.  Of the two stores they carry over, FUSION_ORDERS and        *)
(* CROSS_CHAIN_IDENTITIES, the first is kept here.                         *)
(***************************************************************************)
\* memory::serialize_orderbook_state: the orders as (id, order) pairs.
serialize_orderbook_state ==
    Collected({<<id, fusion_orders[id]>> : id \in DOMAIN fusion_orders})

\* memory::deserialize_orderbook_state: the store is cleared and refilled.
deserialize_orderbook_state(orders_in) ==
    fusion_orders' = [id \in {orders_in[i][1] : i \in 1..Len(orders_in)} |->
                         LET last == CHOOSE i \in 1..Len(orders_in) :
                                         /\ orders_in[i][1] = id
                                         /\ \A j \in (i + 1)..Len(orders_in) :
                                                orders_in[j][1] # id
                         IN  orders_in[last][2]]

\* pre_upgrade of the orderbook: a failed save is logged and the upgrade proceeds.
orderbook_pre_upgrade(answer, keeps) ==
    orderbook_stable_memory' =
        stable_save(orderbook_stable_memory, serialize_orderbook_state, answer, keeps)

\* post_upgrade of the orderbook: the saved orders are restored, or the empty
\* state when nothing can be read.
orderbook_post_upgrade(memory) ==
    LET restored == stable_restore(memory)
    IN  IF restored.ok
        THEN deserialize_orderbook_state(restored.state)
        ELSE deserialize_orderbook_state(<<>>)

\* One upgrade of the orderbook canister.
OrderbookUpgrade(answer, keeps) ==
    /\ \A c \in FusionCallSlots : fusion_calls[c] = Idle
    /\ upgrade_resp.upgrades < MaxUpgrades
    /\ orderbook_pre_upgrade(answer, keeps)
    /\ orderbook_post_upgrade(orderbook_stable_memory')
    /\ upgrade_resp' = [op |-> "orderbook_upgrade",
                        upgrades |-> upgrade_resp.upgrades + 1,
                        save |-> answer,
                        restored |-> stable_restore(orderbook_stable_memory').ok,
                        orders_before |-> Cardinality(DOMAIN fusion_orders)]
    /\ UNCHANGED <<now, fusion_calls, fusion_resp, stable_memory, timelockVars,
                   escrowVars, orderVars, utilsVars, roleVars, lockVars,
                   fusionEscrowVars, historyVars>>

(***************************************************************************)
(* Initial state: every store is empty (thread_local! initialisers).       *)
(***************************************************************************)
Init ==
    /\ now = 0
    /\ tl_resp = NoResp
    /\ cross_chain_escrows = <<>>
    /\ escrows = <<>>
    /\ escrow_resp = NoResp
    /\ orders = <<>>
    /\ filled_orders = {}
    /\ cancelled_orders = {}
    /\ order_counter = 0
    /\ stats = [orders_created |-> 0, orders_filled |-> 0, orders_cancelled |-> 0]
    /\ calls = [c \in CallSlots |-> Idle]
    /\ order_resp = NoResp
    /\ fill_ok = <<>>
    /\ fusion_orders = <<>>
    /\ fusion_calls = [c \in FusionCallSlots |-> Idle]
    /\ fusion_resp = NoResp
    /\ ORDERS = <<>>
    /\ FILLED_ORDERS = {}
    /\ CANCELLED_ORDERS = {}
    /\ REMAINING_AMOUNTS = <<>>
    /\ utils_resp = NoResp
    /\ source_escrows = <<>>
    /\ source_resp = NoResp
    /\ destination_escrows = <<>>
    /\ destination_resp = NoResp
    /\ TIMELOCK_STORE = <<>>
    /\ FUSION_ESCROWS = <<>>
    /\ escrow_calls = [c \in EscrowCallSlots |-> Idle]
    /\ fusion_escrow_resp = NoResp
    /\ transfers_out = <<>>
    /\ fusion_ok = {}
    /\ stable_memory = NoSnapshot
    /\ upgrade_resp = [op |-> "none", upgrades |-> 0]
    /\ orderbook_stable_memory = NoSnapshot

BaseTimelockInputs == (0..MaxTimelock) \cup {now + SAFETY_BUFFER_NS, now + HourNs}

NextTimelock ==
    \/ Tick /\ UNCHANGED <<timelockVars, escrowVars, orderVars, fusionVars, utilsVars, roleVars, lockVars, fusionEscrowVars, upgradeVars, historyVars>>
    \/ \E base_timelock \in BaseTimelockInputs :
           CalculateConservativeTimelocks(base_timelock)
    \/ \E icp_timelock \in 0..MaxPairTimelock, evm_timelock \in 0..MaxPairTimelock :
           ValidateCrossChainCoordination(icp_timelock, evm_timelock)

SpecTimelock == Init /\ [][NextTimelock]_vars

NextCoordination ==
    \/ Tick /\ UNCHANGED <<timelockVars, escrowVars, orderVars, fusionVars, utilsVars, roleVars, lockVars, fusionEscrowVars, upgradeVars, historyVars>>
    \/ \E order_id \in OrderIds, icp_escrow \in HTLCEscrowInputs, evm_escrow \in HTLCEscrowInputs :
           create_cross_chain_escrow(order_id, icp_escrow, evm_escrow)

SpecCoordination == Init /\ [][NextCoordination]_vars

NextEscrow ==
    \/ Tick /\ UNCHANGED <<timelockVars, escrowVars, orderVars, fusionVars, utilsVars, roleVars, lockVars, fusionEscrowVars, upgradeVars, historyVars>>
    \/ \E caller \in Resolvers, params \in CreateEscrowParams :
           /\ EscrowId(now) \in DOMAIN escrows \/ Cardinality(DOMAIN escrows) < MaxEscrows
           /\ create_escrow(caller, params)
    \/ \E caller \in Resolvers, escrow_id \in EscrowIds, amount \in 0..MaxAmount :
           deposit_tokens(caller, escrow_id, amount)
    \/ \E escrow_id \in EscrowIds, preimage \in Preimages :
           claim_escrow(escrow_id, preimage)
    \/ \E escrow_id \in EscrowIds :
           refund_escrow(escrow_id)

SpecEscrow == Init /\ [][NextEscrow]_vars

NextOrders ==
    \/ Tick /\ UNCHANGED <<timelockVars, escrowVars, orderVars, fusionVars, utilsVars, roleVars, lockVars, fusionEscrowVars, upgradeVars, historyVars>>
    \/ \E caller \in Makers, params \in CreateOrderParams :
           /\ order_counter + Cardinality(CreatingCalls) < MaxOrders
           /\ create_order(caller, params)
    \/ \E slot \in CallSlots, answer \in BalanceAnswers : create_order_resume(slot, answer)
    \/ \E caller \in {"alice", "bob"}, order_id \in 1..MaxOrders :
           cancel_order(caller, order_id)
    \/ \E taker \in Takers, order_id \in 1..MaxOrders : fill_order(taker, order_id)
    \/ \E slot \in CallSlots, answer \in BalanceAnswers : fill_order_balance(slot, answer)
    \/ \E slot \in CallSlots, answer \in TransferAnswers : fill_order_transfer(slot, answer)

SpecOrders == Init /\ [][NextOrders]_vars

\* The orders of the fill scenarios: a real pair of tokens or a test-mode
\* order, open to every taker or to bob alone, expiring at the next minute.
FillOrderParams ==
    [receiver : {"alice"},
     maker_asset : {TokenA, Management},
     taker_asset : {TokenB},
     making_amount : {MaxAmount},
     taking_amount : {MaxAmount},
     expiration : {now + 1},
     allowed_taker : {NoPrincipal, "bob"}]

\* The limit-order engine with alice's orders of the fill scenarios.
NextFills ==
    \/ Tick /\ UNCHANGED <<timelockVars, escrowVars, orderVars, fusionVars, utilsVars, roleVars, lockVars, fusionEscrowVars, upgradeVars, historyVars>>
    \/ \E params \in FillOrderParams :
           /\ order_counter + Cardinality(CreatingCalls) < MaxOrders
           /\ create_order("alice", params)
    \/ \E slot \in CallSlots, answer \in BalanceAnswers : create_order_resume(slot, answer)
    \/ \E caller \in {"alice", "bob"}, order_id \in 1..MaxOrders :
           cancel_order(caller, order_id)
    \/ \E taker \in Takers, order_id \in 1..MaxOrders : fill_order(taker, order_id)
    \/ \E slot \in CallSlots, answer \in BalanceAnswers : fill_order_balance(slot, answer)
    \/ \E slot \in CallSlots, answer \in TransferAnswers : fill_order_transfer(slot, answer)

SpecFills == Init /\ [][NextFills]_vars

\* The orderbook's clock: a minute passes, or an hour and a minute, so that
\* an order can be seen before, at and after its expiration (which is more
\* than an hour after its creation).
Elapse(minutes) ==
    /\ now + minutes <= HourNs + MaxTime
    /\ now' = now + minutes

ElapseSteps == {1, HourNs + 1}

\* The ids of the stored fusion orders, and one that names no order.
FusionOrderIds == DOMAIN fusion_orders \cup {fusion_order_id(0, "nobody")}

\* Orders asked for with an expiration an hour, or an hour and a minute, after
\* the canister's start.
FusionCreateParams ==
    [from_amount : 0..MaxAmount,
     to_amount : {MaxAmount},
     expiration : {HourNs, HourNs + 1},
     secret_hash : {compute_secret_hash("secret_a"), MalformedHash}]

\* No call of the orderbook is suspended.
FusionCanisterIdle == \A c \in FusionCallSlots : fusion_calls[c] = Idle

\* A create_order call the bound on stored orders admits.
FusionCreateAdmitted(caller) ==
    \/ fusion_order_id(now, caller) \in DOMAIN fusion_orders
    \/ Cardinality(DOMAIN fusion_orders) < MaxFusionOrders

\* The fusion order book: the life cycle of an order.
NextFusion ==
    \/ \E minutes \in ElapseSteps :
           Elapse(minutes) /\ UNCHANGED <<timelockVars, escrowVars, orderVars, fusionVars, utilsVars, roleVars, lockVars, fusionEscrowVars, upgradeVars, historyVars>>
    \/ \E params \in FusionCreateParams :
           FusionCreateAdmitted("alice") /\ orderbook_create_order("alice", params)
    \/ \E order_id \in FusionOrderIds : accept_fusion_order("bob", order_id)
    \/ \E order_id \in FusionOrderIds, status \in OrderStatus :
           update_order_status(order_id, status)
    \/ \E order_id \in FusionOrderIds : notify_escrow_completed(order_id)
    \/ \E order_id \in FusionOrderIds : notify_escrow_cancelled(order_id)
    \/ \E caller \in {"alice", "bob", "carol"}, order_id \in FusionOrderIds :
           FusionCanisterIdle /\ orderbook_cancel_order(caller, order_id)
    \/ \E slot \in FusionCallSlots, answer \in EscrowAnswers :
           orderbook_cancel_order_resume(slot, answer)
    \/ \E order_id \in FusionOrderIds, secret \in Secrets \cup {MalformedSecret} :
           FusionCanisterIdle /\ complete_order_with_secret(order_id, secret)
    \/ \E slot \in FusionCallSlots, answer \in EscrowAnswers :
           complete_order_with_secret_resume(slot, answer)

SpecFusion == Init /\ [][NextFusion]_vars

\* The settling of one order with two calls in flight: alice's order with
\* the hash of secret_a, accepted by bob, completed with secret_a by anyone
\* and cancelled by alice or bob, each call suspended at the escrow canister
\* while the other runs.
SettleCreateParams ==
    {params \in FusionCreateParams :
        /\ params.from_amount = MaxAmount
        /\ params.expiration = HourNs + 1
        /\ params.secret_hash = compute_secret_hash("secret_a")}

NextSettle ==
    \/ \E minutes \in ElapseSteps :
           Elapse(minutes) /\ UNCHANGED <<timelockVars, escrowVars, orderVars, fusionVars, utilsVars, roleVars, lockVars, fusionEscrowVars, upgradeVars, historyVars>>
    \/ \E params \in SettleCreateParams :
           /\ now = 0
           /\ fusion_orders = <<>>
           /\ orderbook_create_order("alice", params)
    \/ \E order_id \in DOMAIN fusion_orders : accept_fusion_order("bob", order_id)
    \/ \E caller \in {"alice", "bob"}, order_id \in DOMAIN fusion_orders :
           orderbook_cancel_order(caller, order_id)
    \/ \E slot \in FusionCallSlots, answer \in EscrowAnswers :
           orderbook_cancel_order_resumed(slot, answer) /\ SettlingReturned
    \/ \E order_id \in DOMAIN fusion_orders :
           complete_order_with_secret(order_id, "secret_a")
    \/ \E slot \in FusionCallSlots, answer \in EscrowAnswers :
           complete_order_with_secret_resumed(slot, answer) /\ SettlingReturned

SpecSettle == Init /\ [][NextSettle]_vars

\* The fusion order book: the operations that write the other fields of an
\* order (escrow addresses, fusion phase, price curve, partial-fill data).
NextFusionFields ==
    \/ \E params \in FusionCreateParams :
           FusionCreateAdmitted("alice") /\ orderbook_create_order("alice", params)
    \/ \E order_id \in FusionOrderIds : accept_fusion_order("bob", order_id)
    \/ \E order_id \in FusionOrderIds, status \in OrderStatus :
           update_order_status(order_id, status)
    \/ \E order_id \in FusionOrderIds : update_price_curve(order_id, "new_curve")
    \/ \E order_id \in FusionOrderIds, escrow_type \in {"Source", "Destination"} :
           notify_escrow_created(order_id, "escrow_1", escrow_type)
    \/ \E order_id \in FusionOrderIds : notify_escrow_completed(order_id)
    \/ \E order_id \in FusionOrderIds : notify_escrow_cancelled(order_id)
    \/ \E order_id \in FusionOrderIds, secrets \in {<<>>, <<"secret_a">>, <<"secret_b">>} :
           reveal_multiple_secrets(order_id, secrets)
    \/ \E order_id \in DOMAIN fusion_orders : enable_partial_fills(order_id, MaxSecrets)
    \/ \E order_id \in FusionOrderIds, fill_amount \in 0..MaxAmount, build \in OverflowBuilds :
           partially_fill_order(order_id, fill_amount, build)

SpecFusionFields == Init /\ [][NextFusionFields]_vars

\* Orders to be filled in parts: their making_amount is MaxMakingAmount.
PartialFillCreateParams ==
    [from_amount : {MaxMakingAmount},
     to_amount : {MaxAmount},
     expiration : {HourNs + 1},
     secret_hash : {compute_secret_hash("secret_a")}]

\* Fills offered to partially_fill_order and to add_partial_fill.
FillAmounts == 0..MaxMakingAmount

PartialFills == [fill_amount : FillAmounts, secret_index : {0}]

\* The fusion order book: an order filled in parts, with a cancellation that
\* can be in flight meanwhile.
NextPartialFills ==
    \/ \E params \in PartialFillCreateParams :
           FusionCreateAdmitted("alice") /\ orderbook_create_order("alice", params)
    \/ \E order_id \in DOMAIN fusion_orders : enable_partial_fills(order_id, MaxSecrets)
    \/ \E order_id \in DOMAIN fusion_orders :
           /\ Len(fusion_orders[order_id].secret_hashes) < MaxSecrets
           /\ add_secret_hash(order_id, compute_secret_hash("secret_b"))
    \/ \E order_id \in FusionOrderIds, fill_amount \in FillAmounts, build \in OverflowBuilds :
           partially_fill_order(order_id, fill_amount, build)
    \/ \E order_id \in DOMAIN fusion_orders, fill \in PartialFills :
           apply_add_partial_fill(order_id, fill)
    \/ \E order_id \in FusionOrderIds :
           FusionCanisterIdle /\ orderbook_cancel_order("alice", order_id)
    \/ \E slot \in FusionCallSlots, answer \in EscrowAnswers :
           orderbook_cancel_order_resume(slot, answer)

SpecPartialFills == Init /\ [][NextPartialFills]_vars

\* Two orders whose fields differ and whose formatted texts are the same:
\* making_amount 1 with taking_amount 12, and making_amount 11 with
\* taking_amount 2.
CollidingOrders ==
    {[salt |-> 1, making_amount |-> 1, taking_amount |-> 12, expiration |-> MaxTime],
     [salt |-> 1, making_amount |-> 11, taking_amount |-> 2, expiration |-> MaxTime]}

\* The orders handed to the limit-order utils.
UtilsOrders ==
    [salt : {1},
     making_amount : 1..MaxUtilsAmount,
     taking_amount : 1..MaxUtilsAmount,
     expiration : {MaxTime}]
        \cup CollidingOrders

\* The orders handed to fill_order of lib.rs: the amounts include 0.
LopOrders ==
    [salt : {1},
     making_amount : 0..MaxUtilsAmount,
     taking_amount : 0..MaxUtilsAmount,
     expiration : {1, MaxTime}]

\* The limit-order utils: orders stored and cancelled, and the state update
\* with the making amount of a fill that passed the three validations.  An
\* update is offered while the order's entry of REMAINING_AMOUNTS is below
\* MaxUtilsFilled.  Beside them the canister's own fill_order.
NextUtils ==
    \/ Tick /\ UNCHANGED <<timelockVars, escrowVars, orderVars, fusionVars, utilsVars, roleVars, lockVars, fusionEscrowVars, upgradeVars, historyVars>>
    \/ \E order \in UtilsOrders :
           /\ Cardinality(DOMAIN ORDERS \cup {hash_order(order)}) <= MaxUtilsOrders
           /\ store_order(order)
    \/ \E order_hash \in DOMAIN ORDERS : utils_cancel_order_internal(order_hash)
    \/ \E order \in UtilsOrders, signature \in 0..1, amount \in 0..(MaxUtilsAmount + 1) :
           /\ hash_order(order) \in DOMAIN ORDERS
           /\ utils_get_remaining_amount(hash_order(order)) < MaxUtilsFilled
           /\ validate_order_signature(signature) = "Ok"
           /\ validate_order_fillable(order, hash_order(order)) = "Ok"
           /\ validate_fill_amount(order, amount) = "Ok"
           /\ update_order_state(hash_order(order),
                                 execute_atomic_fill(order, amount).making_amount)
    \/ \E order \in LopOrders, signature \in 0..1, amount \in 0..(MaxUtilsAmount + 1) :
           lop_fill_order(order, signature, amount)

SpecUtils == Init /\ [][NextUtils]_vars

NextSourceEscrow ==
    \/ Tick /\ UNCHANGED <<timelockVars, escrowVars, orderVars, fusionVars, utilsVars, roleVars, lockVars, fusionEscrowVars, upgradeVars, historyVars>>
    \/ \E caller \in Resolvers, params \in RoleEscrowParams :
           /\ SourceEscrowId(now) \in DOMAIN source_escrows
              \/ Cardinality(DOMAIN source_escrows) < MaxEscrows
           /\ create_source_escrow(caller, params)
    \/ \E caller \in Resolvers, escrow_id \in SourceEscrowIds, amount \in 0..MaxAmount :
           deposit_tokens_to_source(caller, escrow_id, amount)
    \/ \E caller \in RoleCallers, escrow_id \in SourceEscrowIds, preimage \in Preimages :
           claim_source_escrow(caller, escrow_id, preimage)
    \/ \E caller \in RoleCallers, escrow_id \in SourceEscrowIds :
           refund_source_escrow(caller, escrow_id)

SpecSourceEscrow == Init /\ [][NextSourceEscrow]_vars

NextDestinationEscrow ==
    \/ Tick /\ UNCHANGED <<timelockVars, escrowVars, orderVars, fusionVars, utilsVars, roleVars, lockVars, fusionEscrowVars, upgradeVars, historyVars>>
    \/ \E caller \in Resolvers, params \in RoleEscrowParams :
           /\ DestinationEscrowId(now) \in DOMAIN destination_escrows
              \/ Cardinality(DOMAIN destination_escrows) < MaxEscrows
           /\ create_destination_escrow(caller, params)
    \/ \E caller \in Resolvers, escrow_id \in DestinationEscrowIds, amount \in 0..MaxAmount :
           deposit_tokens_to_destination(caller, escrow_id, amount)
    \/ \E caller \in RoleCallers, escrow_id \in DestinationEscrowIds, preimage \in Preimages :
           claim_destination_escrow(caller, escrow_id, preimage)
    \/ \E caller \in RoleCallers, escrow_id \in DestinationEscrowIds :
           refund_destination_escrow(caller, escrow_id)

SpecDestinationEscrow == Init /\ [][NextDestinationEscrow]_vars

\* Timelocks put to the tests: before, at and after every clock value.
TimelockInputs == 0..(MaxTime + 1)

NextTimelockStatus ==
    \/ Tick /\ UNCHANGED <<timelockVars, escrowVars, orderVars, fusionVars, utilsVars, roleVars, lockVars, fusionEscrowVars, upgradeVars, historyVars>>
    \/ \E order_id \in 1..MaxOrders, timelock \in TimelockInputs :
           store_timelock(order_id, timelock)
    \/ \E timelock \in TimelockInputs : GetTimelockStatus(timelock)
    \/ \E timelock \in TimelockInputs : IsTimelockExpired(timelock)
    \/ \E order_id \in 1..MaxOrders : TimelockManagerIsTimelockExpired(order_id)

SpecTimelockStatus == Init /\ [][NextTimelockStatus]_vars

\* The escrow canister: locks for one order, by the maker alice for the
\* resolver bob; claims, refunds and fund_escrow by anyone.
FusionTimelockInputs == {now, now + 1, now + 2}

\* No call of the escrow canister is suspended.
EscrowCanisterIdle == \A c \in EscrowCallSlots : escrow_calls[c] = Idle

\* One call at a time.
NextFusionEscrow ==
    \/ Tick /\ UNCHANGED <<timelockVars, escrowVars, orderVars, fusionVars, utilsVars, roleVars, lockVars, fusionEscrowVars, upgradeVars, historyVars>>
    \/ \E amount \in 0..MaxAmount, timelock \in FusionTimelockInputs :
           /\ EscrowCanisterIdle
           /\ generate_escrow_id(1, now) \in DOMAIN FUSION_ESCROWS
              \/ Cardinality(DOMAIN FUSION_ESCROWS) < MaxEscrows
           /\ lock_icp_for_swap("alice", 1, amount, "bob", timelock)
    \/ \E c \in EscrowCallSlots, answer \in TransferToEscrowAnswers :
           lock_icp_for_swap_transferred(c, answer)
    \/ \E caller \in {"alice", "bob"}, timelock \in FusionTimelockInputs :
           /\ EscrowCanisterIdle
           /\ Cardinality(DOMAIN FUSION_ESCROWS) < MaxEscrows
           /\ lock_icp_for_order(caller, 1, MaxAmount, timelock)
    \/ \E c \in EscrowCallSlots, answer \in OrderStatusAnswers :
           lock_icp_for_order_direction(c, answer)
    \/ \E c \in EscrowCallSlots, answer \in OrderStatusAnswers :
           lock_icp_for_order_maker(c, answer)
    \/ \E c \in EscrowCallSlots, answer \in TransferToEscrowAnswers :
           lock_icp_for_order_transferred(c, answer)
    \/ \E caller \in RoleCallers, escrow_id \in FusionEscrowIds :
           fund_escrow(caller, escrow_id)
    \/ \E caller \in RoleCallers, escrow_id \in FusionEscrowIds, eth_receipt \in EthReceipts :
           /\ EscrowCanisterIdle
           /\ Len(TransfersOutOf(escrow_id)) < MaxTransfersOut
           /\ claim_locked_icp(caller, escrow_id, eth_receipt)
    \/ \E c \in EscrowCallSlots, answer \in TransferFromEscrowAnswers :
           claim_locked_icp_transferred(c, answer)
    \/ \E caller \in RoleCallers, escrow_id \in FusionEscrowIds :
           /\ EscrowCanisterIdle
           /\ Len(TransfersOutOf(escrow_id)) < MaxTransfersOut
           /\ refund_locked_icp(caller, escrow_id)
    \/ \E c \in EscrowCallSlots, answer \in TransferFromEscrowAnswers :
           refund_locked_icp_transferred(c, answer)

SpecFusionEscrow == Init /\ [][NextFusionEscrow]_vars

\* The backend escrow life cycle together with the status query.
NextEscrowStatus ==
    \/ NextEscrow
    \/ \E escrow_id \in EscrowIds : get_escrow_status(escrow_id)

SpecEscrowStatus == Init /\ [][NextEscrowStatus]_vars

\* Concurrent creation: alice and bob ask for orders of a real token pair
\* (which wait for the balance check) or of the test token (which do not).
ConcurrentCreateParams ==
    [receiver : {"alice"},
     maker_asset : {TokenA, Management},
     taker_asset : {TokenB},
     making_amount : {MaxAmount},
     taking_amount : {MaxAmount},
     expiration : {now + 1},
     allowed_taker : {NoPrincipal}]

NextCreates ==
    \/ Tick /\ UNCHANGED <<timelockVars, escrowVars, orderVars, fusionVars, utilsVars, roleVars, lockVars, fusionEscrowVars, upgradeVars, historyVars>>
    \/ \E caller \in {"alice", "bob"}, params \in ConcurrentCreateParams :
           /\ stats.orders_created + Cardinality(CreatingCalls) < MaxCreates
           /\ create_order(caller, params)
    \/ \E slot \in CallSlots, answer \in BalanceAnswers : create_order_resume(slot, answer)

SpecCreates == Init /\ [][NextCreates]_vars

\* The price curves put to calculate_price: falling or flat segments that
\* follow one another from time 0 to total_duration.
PriceSegment(start_time, end_time, start_price, end_price) ==
    [start_time |-> start_time, end_time |-> end_time,
     start_price |-> start_price, end_price |-> end_price]

PriceInputs == {0, 8, 100, 200}

OneSegmentCurves ==
    {[segments |-> <<PriceSegment(0, duration, prices[1], prices[2])>>,
      total_duration |-> duration] :
        duration \in {1, 4},
        prices \in {pair \in PriceInputs \X PriceInputs : pair[2] <= pair[1]}}

TwoSegmentCurves ==
    {[segments |-> <<PriceSegment(0, 2, 120, 100), PriceSegment(2, 6, 100, 95)>>,
      total_duration |-> 6]}

PriceCurves == OneSegmentCurves \cup TwoSegmentCurves

NextPriceCurve ==
    \E curve \in PriceCurves, elapsed_time \in 0..MaxElapsed, build \in OverflowBuilds :
        CalculatePrice(curve, elapsed_time, build)

SpecPriceCurve == Init /\ [][NextPriceCurve]_vars

\* The orders whose price is asked for: as FusionOrder::new leaves them, and
\* after update_price_curve gave them another curve.
AuctionOrders ==
    {auction_parameters(taking_amount) : taking_amount \in 1..2}
      \cup {with_price_curve(auction_parameters(2), curve) : curve \in PriceCurves}

\* The times of a price request, in units of 600 ns: before the auction, the
\* first MaxElapsed units of it, and five minutes after its start.
AuctionTimes ==
    {0, WaitingPeriodNs - 1}
        \cup (WaitingPeriodNs..(WaitingPeriodNs + MaxElapsed))
        \cup {WaitingPeriodNs + WaitingPeriodNs}

NextAuction ==
    \E order \in AuctionOrders, current_time \in AuctionTimes, build \in OverflowBuilds :
        CalculateCurrentPrice(order, current_time, build)

SpecAuction == Init /\ [][NextAuction]_vars

\* The records update_cross_chain_escrow is handed: the stored record of the
\* order with another coordination state and another log.
EventLogs == UNION {[1..n -> CrossChainEscrowEvents] : n \in 0..MaxEvents}

UpdatedEscrows(order_id) ==
    IF order_id \in DOMAIN cross_chain_escrows
    THEN {[cross_chain_escrows[order_id] EXCEPT !.coordination_state = state,
                                                !.events = events,
                                                !.updated_at = now] :
             state \in CoordinationStates, events \in EventLogs}
    ELSE {}

\* The records of a backup handed to import_escrow_data: a pairing of order_1
\* in any coordination state, with an empty log or a log of one event.
BackupEscrows ==
    {[order_id |-> "order_1",
      icp_escrow |-> [timelock |-> MaxPairTimelock, status |-> "Created"],
      evm_escrow |-> [timelock |-> MaxPairTimelock, status |-> "Created"],
      coordination_state |-> state,
      icp_finality_lag |-> 0,
      evm_finality_lag |-> 0,
      failed_transactions |-> 0,
      events |-> events,
      created_at |-> 0,
      updated_at |-> 0] :
         state \in CoordinationStates, events \in {<<>>, <<"EscrowFunded">>}}

\* The backups: no record, one record, or two records of the same pairing.
EscrowBackups ==
    {[cross_chain_escrows |-> records, exported_at |-> 0] :
        records \in {<<>>} \cup {<<r>> : r \in BackupEscrows}
                     \cup {<<r, q>> : r \in BackupEscrows,
                                      q \in {e \in BackupEscrows :
                                                 e.coordination_state = "Pending"}}}

\* The coordination ledger of one pairing under all of its operations.
NextLedger ==
    \/ Tick /\ UNCHANGED <<timelockVars, escrowVars, orderVars, fusionVars, utilsVars, roleVars, lockVars, fusionEscrowVars, upgradeVars, historyVars>>
    \/ \E escrow \in [timelock : {MaxPairTimelock}, status : {"Created"}] :
           create_cross_chain_escrow("order_1", escrow, escrow)
    \/ \E updated_escrow \in UpdatedEscrows("order_1") :
           update_cross_chain_escrow("order_1", updated_escrow)
    \/ \E order_id \in OrderIds, new_state \in CoordinationStates :
           update_cross_chain_coordination_state(order_id, new_state)
    \/ \E order_id \in OrderIds, event \in CrossChainEscrowEvents :
           /\ order_id \in DOMAIN cross_chain_escrows =>
                  Len(cross_chain_escrows[order_id].events) < MaxEvents
           /\ add_event_to_cross_chain_escrow(order_id, event)
    \/ \E backup \in EscrowBackups : import_escrow_data(backup)
    \/ clear_escrow_data

SpecLedger == Init /\ [][NextLedger]_vars

\* The backend with its orders, its escrows and its upgrades: one order of
\* alice between two tokens, one escrow, every token call answering well.
UpgradeOrderParams ==
    {params \in FillOrderParams : params.maker_asset = TokenA}

UpgradeEscrowParams ==
    {params \in CreateEscrowParams : params.amount = MaxAmount /\ params.timelock = now + 2}

\* The batches handed to batch_cancel_orders: one id, the same id twice, and
\* an id no order has.
BatchCancelInputs == {<<1>>, <<1, 1>>, <<1, MaxOrders + 1>>}

NextUpgrade ==
    \/ \E params \in UpgradeOrderParams :
           /\ order_counter + Cardinality(CreatingCalls) < MaxOrders
           /\ create_order("alice", params)
    \/ \E slot \in CallSlots : create_order_resume(slot, [failed |-> FALSE, balance |-> MaxAmount])
    \/ \E order_id \in 1..MaxOrders : cancel_order("alice", order_id)
    \/ \E order_ids \in BatchCancelInputs : batch_cancel_orders("alice", order_ids)
    \/ \E order_id \in 1..MaxOrders : fill_order("bob", order_id)
    \/ \E slot \in CallSlots : fill_order_balance(slot, [failed |-> FALSE, balance |-> MaxAmount])
    \/ \E slot \in CallSlots : fill_order_transfer(slot, "Ok")
    \/ \E params \in UpgradeEscrowParams :
           /\ EscrowId(now) \in DOMAIN escrows \/ Cardinality(DOMAIN escrows) < MaxEscrows
           /\ create_escrow("bob", params)
    \/ \E answer \in StableSaveAnswers, keeps \in BOOLEAN : Upgrade(answer, keeps)
    \/ \E params \in SettleCreateParams :
           /\ fusion_orders = <<>>
           /\ orderbook_create_order("alice", params)
    \/ \E answer \in StableSaveAnswers, keeps \in BOOLEAN : OrderbookUpgrade(answer, keeps)

SpecUpgrade == Init /\ [][NextUpgrade]_vars

\* The escrow canister with two calls in flight: one lock of alice for the
\* resolver bob, then bob's claims and alice's refunds, each suspended at its
\* transfer while the other runs.
NextPayout ==
    \/ Tick /\ UNCHANGED <<timelockVars, escrowVars, orderVars, fusionVars, utilsVars, roleVars, lockVars, fusionEscrowVars, upgradeVars, historyVars>>
    \/ /\ now = 0
       /\ FUSION_ESCROWS = <<>>
       /\ EscrowCanisterIdle
       /\ lock_icp_for_swap("alice", 1, MaxAmount, "bob", now + 1)
    \/ \E c \in EscrowCallSlots, answer \in {"Ok", "TransferFailed"} :
           lock_icp_for_swap_transferred(c, answer)
    \/ \E caller \in {"alice", "bob"}, escrow_id \in DOMAIN FUSION_ESCROWS :
           /\ Len(TransfersOutOf(escrow_id)) < MaxTransfersOut
           /\ claim_locked_icp(caller, escrow_id, "receipt_1")
    \/ \E c \in EscrowCallSlots, answer \in TransferFromEscrowAnswers :
           claim_locked_icp_transferred(c, answer)
    \/ \E caller \in {"alice", "bob"}, escrow_id \in DOMAIN FUSION_ESCROWS :
           /\ Len(TransfersOutOf(escrow_id)) < MaxTransfersOut
           /\ refund_locked_icp(caller, escrow_id)
    \/ \E c \in EscrowCallSlots, answer \in TransferFromEscrowAnswers :
           refund_locked_icp_transferred(c, answer)

SpecPayout == Init /\ [][NextPayout]_vars

(***************************************************************************)
(* Claims about the timelock coordinator.                                  *)
(***************************************************************************)

\* C7: every pair recorded in the coordination ledger has
\* icp (source) timelock - evm (destination) timelock >= TOTAL_BUFFER_NS.
C7_AcceptedPairsKeepBuffer ==
    \A id \in DOMAIN cross_chain_escrows :
        cross_chain_escrows[id].icp_escrow.timelock
            - cross_chain_escrows[id].evm_escrow.timelock >= TOTAL_BUFFER_NS

\* C8: whenever calculate_conservative_timelocks succeeds, the ICP timelock is
\* the base timelock and the EVM timelock is exactly base - (finality buffer +
\* coordination buffer) as an integer, i.e. the u64 subtraction did not wrap.
C8_ConservativeTimelocksExact ==
    (tl_resp.op = "calculate" /\ tl_resp.result.ok) =>
        /\ tl_resp.result.icp_timelock = tl_resp.base_timelock
        /\ tl_resp.result.evm_timelock =
               tl_resp.base_timelock - (FINALITY_BUFFER_NS + COORDINATION_BUFFER_NS)
        /\ tl_resp.base_timelock >= FINALITY_BUFFER_NS + COORDINATION_BUFFER_NS

C8_Witness ==
    /\ tl_resp.op = "calculate"
    /\ tl_resp.result.ok
    /\ tl_resp.current_time > 0
    /\ tl_resp.base_timelock = tl_resp.current_time + TOTAL_BUFFER_NS + SAFETY_BUFFER_NS + 1
    /\ tl_resp.result.evm_timelock = tl_resp.current_time + SAFETY_BUFFER_NS + 1

\* C9: calculate_conservative_timelocks fails, with TimelockTooShort, exactly when
\* base_timelock <= now + buffer + safety margin; base = now + 1 h succeeds and
\* base = now + 5 min fails.
C9_TooShortExactly ==
    tl_resp.op = "calculate" =>
        /\ (~tl_resp.result.ok) <=>
               (tl_resp.base_timelock <=
                    tl_resp.current_time + TOTAL_BUFFER_NS + SAFETY_BUFFER_NS)
        /\ (~tl_resp.result.ok) => tl_resp.result.err = "TimelockTooShort"
        /\ (tl_resp.base_timelock = tl_resp.current_time + HourNs) => tl_resp.result.ok
        /\ (tl_resp.base_timelock = tl_resp.current_time + SAFETY_BUFFER_NS) =>
               ~tl_resp.result.ok

C9_Witness ==
    /\ tl_resp.op = "calculate"
    /\ tl_resp.current_time > 0
    /\ tl_resp.base_timelock = tl_resp.current_time + TOTAL_BUFFER_NS + SAFETY_BUFFER_NS
    /\ ~tl_resp.result.ok
    /\ tl_resp.result.err = "TimelockTooShort"

\* C10: validate_cross_chain_coordination succeeds exactly when
\* icp_timelock - evm_timelock >= buffer (as integers, so never when
\* icp_timelock <= evm_timelock) and otherwise fails with
\* InvalidTimelockCoordination.
C10_CoordinationValidated ==
    tl_resp.op = "validate" =>
        /\ tl_resp.result.ok <=>
               (tl_resp.icp_timelock - tl_resp.evm_timelock >= TOTAL_BUFFER_NS)
        /\ (~tl_resp.result.ok) => tl_resp.result.err = "InvalidTimelockCoordination"

C10_Witness ==
    /\ tl_resp.op = "validate"
    /\ tl_resp.icp_timelock < tl_resp.evm_timelock
    /\ ~tl_resp.result.ok
    /\ tl_resp.result.err = "InvalidTimelockCoordination"

(***************************************************************************)
(* Claims about the escrow state machine (backend/src/escrows.rs).         *)
(***************************************************************************)

\* C3: a claim or refund called on an escrow that is already Claimed or
\* Refunded fails with InvalidState and leaves the escrow as it was, and a
\* claim or refund succeeds only from Funded: of any sequence of claim and
\* refund calls on one escrow at most one succeeds.
C3_SettledOnce ==
    (escrow_resp.op \in {"claim", "refund"} /\ escrow_resp.pre_state # "NotFound") =>
        /\ escrow_resp.pre_state \in {"Claimed", "Refunded"} =>
               /\ escrow_resp.result = "InvalidState"
               /\ escrows[escrow_resp.id].state = escrow_resp.pre_state
        /\ escrow_resp.result = "Ok" =>
               /\ escrow_resp.pre_state = "Funded"
               /\ escrows[escrow_resp.id].state
                      = (IF escrow_resp.op = "claim" THEN "Claimed" ELSE "Refunded")

\* A second claim, with the right preimage and before expiry, on a Claimed escrow.
C3_Witness ==
    /\ escrow_resp.op = "claim"
    /\ escrow_resp.pre_state = "Claimed"
    /\ escrow_resp.result = "InvalidState"
    /\ verify_hashlock(escrow_resp.preimage, escrows[escrow_resp.id].hashlock)
    /\ escrow_resp.at < escrows[escrow_resp.id].timelock

\* C4: claim succeeds exactly when, at the call, the escrow is Funded, the
\* SHA-256 of the preimage is the stored hashlock and now < timelock; on
\* success the escrow is Claimed; otherwise the call fails with InvalidState,
\* InvalidHashlock or TimelockExpired according to the check that failed, and
\* the escrow keeps its state.
C4_ClaimContract ==
    (escrow_resp.op = "claim" /\ escrow_resp.pre_state # "NotFound") =>
        LET e == escrows[escrow_resp.id]
            funded == escrow_resp.pre_state = "Funded"
            hash_ok == Sha256(escrow_resp.preimage) = e.hashlock
            in_time == escrow_resp.at < e.timelock
        IN  /\ escrow_resp.result = "Ok" <=> (funded /\ hash_ok /\ in_time)
            /\ escrow_resp.result = "Ok" => e.state = "Claimed"
            /\ escrow_resp.result # "Ok" => e.state = escrow_resp.pre_state
            /\ ~funded => escrow_resp.result = "InvalidState"
            /\ (funded /\ ~hash_ok) => escrow_resp.result = "InvalidHashlock"
            /\ (funded /\ hash_ok /\ ~in_time) => escrow_resp.result = "TimelockExpired"

\* A claim with the right preimage made at the very instant the timelock is reached.
C4_Witness ==
    /\ escrow_resp.op = "claim"
    /\ escrow_resp.pre_state = "Funded"
    /\ verify_hashlock(escrow_resp.preimage, escrows[escrow_resp.id].hashlock)
    /\ escrow_resp.at = escrows[escrow_resp.id].timelock
    /\ escrow_resp.result = "TimelockExpired"

\* C5: refund succeeds exactly when the escrow is Funded and now >= timelock;
\* before expiry a refund of a Funded escrow fails with TimelockNotExpired and
\* leaves it Funded; after expiry it succeeds and the escrow is Refunded.
C5_RefundContract ==
    (escrow_resp.op = "refund" /\ escrow_resp.pre_state # "NotFound") =>
        LET e == escrows[escrow_resp.id]
            funded == escrow_resp.pre_state = "Funded"
            expired == escrow_resp.at >= e.timelock
        IN  /\ escrow_resp.result = "Ok" <=> (funded /\ expired)
            /\ escrow_resp.result = "Ok" => e.state = "Refunded"
            /\ (funded /\ ~expired) =>
                   /\ escrow_resp.result = "TimelockNotExpired"
                   /\ e.state = "Funded"

\* A refund of a Funded escrow made at the very instant the timelock is reached.
C5_Witness ==
    /\ escrow_resp.op = "refund"
    /\ escrow_resp.pre_state = "Funded"
    /\ escrow_resp.at = escrows[escrow_resp.id].timelock
    /\ escrow_resp.result = "Ok"
    /\ escrows[escrow_resp.id].state = "Refunded"

\* The forward steps of the escrow state machine.
EscrowForward(from, to) ==
    \/ from = to
    \/ <<from, to>> \in {<<"Created", "Funded">>, <<"Funded", "Claimed">>,
                         <<"Funded", "Refunded">>}

\* C6: in every step, every stored escrow stays stored and its state either
\* stays or advances along Created -> Funded -> Claimed / Refunded.
C6_StateOnlyAdvances ==
    [][\A id \in DOMAIN escrows :
           /\ id \in DOMAIN escrows'
           /\ EscrowForward(escrows[id].state, escrows'[id].state)]_vars


(***************************************************************************)
(* Claims about the limit-order engine (SpecOrders).                       *)
(***************************************************************************)

\* C1: among fill_order calls on one order, interleaved at their awaits, at
\* most one returns Ok (and so at most one pair of transfer legs is executed
\* for the order).
C1_AtMostOneFillSucceeds ==
    \A order_id \in DOMAIN fill_ok : fill_ok[order_id] <= 1

\* C2: no order is ever in the filled set and in the cancelled set at once,
\* however fill_order and cancel_order interleave.
C2_NeverFilledAndCancelled ==
    filled_orders \cap cancelled_orders = {}


(***************************************************************************)
(* Claims about the fill of an order (SpecFills).                          *)
(***************************************************************************)

\* The last call to return was fill_order.
FillReturned == order_resp.op = "fill_order"

\* An order of the engine's test mode: one of its assets is the management
\* canister, and execute_order_transfers makes no transfer for it.
TestMode(order) == order.maker_asset = Management \/ order.taker_asset = Management

\* C11 (as stated): fill_order returns Ok, and marks the order filled, only
\* after both transfer legs succeeded.
C11_FilledOnlyAfterBothLegs ==
    (FillReturned /\ order_resp.result = "Ok") => order_resp.transfers = <<"Ok", "Ok">>

\* C11 (amended): an order is marked filled exactly when a fill_order call on
\* it has returned Ok; a call that returns Ok has marked it, after both legs
\* succeeded or, for a test-mode order, after no transfer at all; a call that
\* returns an error marks nothing.
C11_FilledOnlyAfterBothLegsOrTestMode ==
    /\ \A order_id \in DOMAIN orders : order_id \in filled_orders <=> fill_ok[order_id] > 0
    /\ (FillReturned /\ order_resp.result = "Ok") =>
           /\ order_resp.order_id \in filled_orders
           /\ order_resp.transfers =
                  IF TestMode(orders[order_resp.order_id]) THEN <<>> ELSE <<"Ok", "Ok">>

C11_Witness ==
    /\ FillReturned
    /\ order_resp.result = "Ok"
    /\ order_resp.transfers = <<"Ok", "Ok">>
    /\ order_resp.order_id \in filled_orders

\* C12: when the maker's leg fails after the taker's leg succeeded, the call
\* does not return before a reversal of the taker's leg has been answered; it
\* returns the maker leg's error if the reversal succeeded and SystemError if
\* it failed, and SystemError is returned in no other case.
C12_RollbackThenDistinctError ==
    FillReturned =>
        /\ (Len(order_resp.transfers) >= 2 /\ order_resp.transfers[1] = "Ok"
                /\ order_resp.transfers[2] # "Ok") =>
               /\ Len(order_resp.transfers) = 3
               /\ order_resp.result = IF order_resp.transfers[3] = "Ok"
                                      THEN order_resp.transfers[2]
                                      ELSE "SystemError"
        /\ order_resp.result = "SystemError" =>
               /\ Len(order_resp.transfers) = 3
               /\ order_resp.transfers[1] = "Ok"
               /\ order_resp.transfers[2] # "Ok"
               /\ order_resp.transfers[3] # "Ok"

C12_Witness ==
    /\ FillReturned
    /\ order_resp.result = "SystemError"
    /\ order_resp.transfers = <<"Ok", "TransferFailed", "TokenCallFailed">>
    /\ order_resp.order_id \notin filled_orders


\* A fill_order call returns without having suspended: phases 1 to 3 rejected
\* it (or, for a test-mode order, it went through at once).
FillReturnsAtOnce ==
    /\ order_resp' # order_resp
    /\ order_resp'.op = "fill_order"
    /\ calls' = calls

\* The order is open to one taker only, and the caller is another.
NotAllowedTaker(order, taker) ==
    order.allowed_taker # NoPrincipal /\ taker # order.allowed_taker

\* fill_order by a caller the active order does not allow fails Unauthorized
\* and changes nothing of the order engine's state; the allowed taker is never
\* answered Unauthorized.
ExclusiveTakerEnforced ==
    /\ order_resp'.order_id \in DOMAIN orders =>
           LET order == orders[order_resp'.order_id]
           IN  /\ (is_order_active(order.id) /\ NotAllowedTaker(order, order_resp'.caller)) =>
                      /\ order_resp'.result = "Unauthorized"
                      /\ UNCHANGED <<orders, filled_orders, cancelled_orders,
                                     order_counter, stats, fill_ok>>
               /\ order_resp'.result = "Unauthorized" =>
                      NotAllowedTaker(order, order_resp'.caller)

\* C13 (as stated): a caller other than the exclusive taker fails Unauthorized
\* and leaves the order fillable, the exclusive taker is let through, and every
\* fill_order call that finds the order filled fails OrderAlreadyFilled.
C13_ExclusiveTakerThenAlreadyFilled ==
    [][FillReturnsAtOnce =>
          /\ ExclusiveTakerEnforced
          /\ order_resp'.order_id \in filled_orders =>
                 order_resp'.result = "OrderAlreadyFilled"]_vars

\* C13 (amended): as stated, but a fill_order call that finds the order filled
\* fails OrderAlreadyFilled only before the order's expiration; from the
\* expiration on it fails OrderExpired.
C13_ExclusiveTakerThenAlreadyFilledOrExpired ==
    [][FillReturnsAtOnce =>
          /\ ExclusiveTakerEnforced
          /\ order_resp'.order_id \in filled_orders =>
                 order_resp'.result =
                     IF orders[order_resp'.order_id].expiration <= now
                     THEN "OrderExpired" ELSE "OrderAlreadyFilled"]_vars

C13_Witness ==
    /\ FillReturned
    /\ order_resp.result = "OrderAlreadyFilled"
    /\ order_resp.order_id \in filled_orders
    /\ orders[order_resp.order_id].allowed_taker = order_resp.caller
    /\ fill_ok[order_resp.order_id] = 1

\* A status of a stored fusion order changes from `from` to `to` in this step.
StatusStep(order_id, from, to) ==
    /\ order_id \in DOMAIN fusion_orders
    /\ order_id \in DOMAIN fusion_orders'
    /\ fusion_orders[order_id].status = from
    /\ fusion_orders'[order_id].status = to

\* A cancel_order call of the orderbook returns in this step.
FusionCancelReturns ==
    /\ fusion_resp' # fusion_resp
    /\ fusion_resp'.op = "cancel_order"

\* C14: cancel_order called by any principal other than the order's maker fails
\* and leaves the order unchanged, and an order becomes Cancelled only in a
\* step in which a cancel_order call of its maker returns.
C14_OnlyMakerCancels ==
    [][/\ (/\ FusionCancelReturns
           /\ fusion_resp'.order_id \in DOMAIN fusion_orders
           /\ fusion_resp'.caller # fusion_orders[fusion_resp'.order_id].maker_icp_principal)
          => (fusion_resp'.result # "Ok" /\ fusion_orders' = fusion_orders)
       /\ \A order_id \in DOMAIN fusion_orders :
              (/\ fusion_orders[order_id].status # "Cancelled"
               /\ StatusStep(order_id, fusion_orders[order_id].status, "Cancelled"))
              => (/\ FusionCancelReturns
                  /\ fusion_resp'.caller = fusion_orders[order_id].maker_icp_principal)]_vars

\* The status changes the order life cycle is documented to have.
DocumentedTransitions ==
    {<<"Pending", "Accepted">>, <<"Accepted", "Completed">>, <<"Pending", "Cancelled">>,
     <<"Pending", "Expired">>, <<"Accepted", "Failed">>}

\* C15: a fusion order enters the store Pending, and every step either leaves
\* its status alone or changes it along Pending -> Accepted, Accepted ->
\* Completed, Pending -> Cancelled, Pending -> Expired or Accepted -> Failed;
\* Completed, Cancelled, Expired and Failed are never left.
C15_StatusTransitions ==
    [][/\ \A order_id \in DOMAIN fusion_orders' \ DOMAIN fusion_orders :
              fusion_orders'[order_id].status = "Pending"
       /\ \A order_id \in DOMAIN fusion_orders :
              /\ order_id \in DOMAIN fusion_orders'
              /\ \/ fusion_orders'[order_id].status = fusion_orders[order_id].status
                 \/ <<fusion_orders[order_id].status, fusion_orders'[order_id].status>>
                        \in DocumentedTransitions]_vars

TerminalStatuses == {"Completed", "Cancelled", "Expired"}

\* C16: once the status of an order is Completed, Cancelled or Expired, no step
\* changes any field of the stored order (status, resolver, escrow addresses,
\* fusion phase, partial-fill data, price curve).
C16_TerminalOrdersImmutable ==
    [][\A order_id \in DOMAIN fusion_orders :
           fusion_orders[order_id].status \in TerminalStatuses =>
               /\ order_id \in DOMAIN fusion_orders'
               /\ fusion_orders'[order_id] = fusion_orders[order_id]]_vars

(***************************************************************************)
(* Claims about partial fills (SpecPartialFills, SpecFusionFields,         *)
(* SpecUtils).                                                             *)
(***************************************************************************)

RECURSIVE SumFillAmounts(_)
\* The sum of fill_amount over a sequence of recorded fills.
SumFillAmounts(fills) ==
    IF fills = <<>> THEN 0
    ELSE fills[1].fill_amount + SumFillAmounts(Tail(fills))

\* The fills the orderbook has recorded for an order stay within its making_amount.
OrderbookFillsWithinMakingAmount ==
    \A order_id \in DOMAIN fusion_orders :
        supports_partial_fills(fusion_orders[order_id]) =>
            SumFillAmounts(fusion_orders[order_id].partial_fill_data.fills)
                <= fusion_orders[order_id].making_amount

\* The making amounts the limit-order utils have recorded as filled for an
\* order (its entry of REMAINING_AMOUNTS) stay within its making_amount.
UtilsFillsWithinMakingAmount ==
    \A order_hash \in DOMAIN REMAINING_AMOUNTS :
        order_hash \in DOMAIN ORDERS =>
            REMAINING_AMOUNTS[order_hash] <= ORDERS[order_hash].making_amount

\* C17: for every order and any sequence of partial fills, the sum of
\* fill_amount over all recorded fills never exceeds the order's making_amount.
C17_FillsWithinMakingAmount ==
    /\ OrderbookFillsWithinMakingAmount
    /\ UtilsFillsWithinMakingAmount

\* C18: an order with partial fills enabled is Completed exactly when its
\* remaining_amount is 0: Completed once a fill has brought remaining_amount
\* to 0, and never Completed while remaining_amount > 0.
C18_CompletedIffNothingRemains ==
    \A order_id \in DOMAIN fusion_orders :
        supports_partial_fills(fusion_orders[order_id]) =>
            (fusion_orders[order_id].status = "Completed"
                 <=> fusion_orders[order_id].partial_fill_data.remaining_amount = 0)

\* C19: across any sequence of partial fills on one order, the recorded secret
\* indices are non-decreasing in fill order.
C19_SecretIndicesNonDecreasing ==
    \A order_id \in DOMAIN fusion_orders :
        supports_partial_fills(fusion_orders[order_id]) =>
            LET fills == fusion_orders[order_id].partial_fill_data.fills
            IN  \A i \in 1..Len(fills), j \in 1..Len(fills) :
                    i <= j => fills[i].secret_index <= fills[j].secret_index

\* FusionOrder::add_partial_fill was applied to an order with partial fills enabled.
AddFillApplied ==
    /\ fusion_resp.op = "add_partial_fill"
    /\ fusion_resp.before.enabled

\* C20: add_fill fails with InsufficientRemainingAmount and changes nothing
\* when fill_amount > remaining_amount; otherwise it decreases
\* remaining_amount by exactly fill_amount and appends exactly one fill record.
C20_AddFillContract ==
    AddFillApplied =>
        IF fusion_resp.fill.fill_amount > fusion_resp.before.remaining_amount
        THEN /\ fusion_resp.result = "InsufficientRemainingAmount"
             /\ fusion_resp.after = fusion_resp.before
        ELSE /\ fusion_resp.result = "Ok"
             /\ fusion_resp.after.remaining_amount
                    = fusion_resp.before.remaining_amount - fusion_resp.fill.fill_amount
             /\ fusion_resp.after.fills = Append(fusion_resp.before.fills, fusion_resp.fill)

C20_Witness ==
    /\ AddFillApplied
    /\ fusion_resp.before.fills # <<>>
    /\ fusion_resp.before.remaining_amount > 0
    /\ fusion_resp.fill.fill_amount > fusion_resp.before.remaining_amount
    /\ fusion_resp.result = "InsufficientRemainingAmount"

(***************************************************************************)
(* Claims about the escrow roles and the escrow store (SpecEscrow,         *)
(* SpecSourceEscrow, SpecDestinationEscrow).                               *)
(***************************************************************************)

\* C21: a create_escrow that returns an id returns one under which no escrow
\* was stored before (so no existing record is replaced) and leaves the
\* record under that id in state Created.
C21_CreatedIdsAreFresh ==
    (escrow_resp.op = "create" /\ escrow_resp.result = "Ok") =>
        /\ escrow_resp.pre_state = "NotFound"
        /\ StateOf(escrow_resp.id) = "Created"

\* A claim or refund of a source escrow that exists returns in this step, and
\* its caller is not the escrow's taker.
SourceCallByNonTaker ==
    /\ source_resp' # source_resp
    /\ source_resp'.op \in {"claim", "refund"}
    /\ source_resp'.id \in DOMAIN source_escrows
    /\ source_resp'.caller # source_escrows[source_resp'.id].taker

\* C22 (as stated): claim and refund of a source escrow called by any principal
\* other than the escrow's taker fail with Unauthorized and leave the escrow
\* unchanged.
C22_SourceOnlyTaker ==
    [][SourceCallByNonTaker =>
          /\ source_resp'.result = "Unauthorized"
          /\ source_escrows' = source_escrows]_vars

\* C22 (amended): such a call fails and leaves the escrow unchanged: with
\* Unauthorized on a Funded escrow, with InvalidState on an escrow in any
\* other state.
C22_SourceOnlyTakerWhenFunded ==
    [][SourceCallByNonTaker =>
          /\ source_resp'.result =
                 IF source_escrows[source_resp'.id].state = "Funded"
                 THEN "Unauthorized" ELSE "InvalidState"
          /\ source_escrows' = source_escrows]_vars

C22_Witness ==
    /\ source_resp.op = "claim"
    /\ source_resp.result = "Unauthorized"
    /\ source_resp.preimage = "secret_a"
    /\ source_resp.id \in DOMAIN source_escrows
    /\ source_resp.caller # source_escrows[source_resp.id].taker
    /\ source_escrows[source_resp.id].state = "Funded"
    /\ source_escrows[source_resp.id].timelock > source_resp.at

\* A claim of a destination escrow returns in this step; the escrow was Funded,
\* its timelock not yet reached, and the preimage is the one of its hashlock.
DestinationClaimInTime ==
    /\ destination_resp' # destination_resp
    /\ destination_resp'.op = "claim"
    /\ destination_resp'.id \in DOMAIN destination_escrows
    /\ destination_escrows[destination_resp'.id].state = "Funded"
    /\ now < destination_escrows[destination_resp'.id].timelock
    /\ verify_hashlock(destination_resp'.preimage,
                       destination_escrows[destination_resp'.id].hashlock)

\* A refund of a destination escrow that exists returns in this step, and its
\* caller is not the escrow's taker (the party that funds a destination escrow).
DestinationRefundByNonTaker ==
    /\ destination_resp' # destination_resp
    /\ destination_resp'.op = "refund"
    /\ destination_resp'.id \in DOMAIN destination_escrows
    /\ destination_resp'.caller # destination_escrows[destination_resp'.id].taker

\* Whoever the caller, the claim succeeds and the escrow becomes Claimed.
DestinationClaimSucceeds ==
    /\ destination_resp'.result = "Ok"
    /\ destination_escrows'[destination_resp'.id].state = "Claimed"

\* C23 (as stated): claim of a destination escrow succeeds for any caller that
\* supplies the correct preimage on a Funded escrow before expiry, and refund
\* by any caller other than the funding party fails with Unauthorized and
\* leaves the escrow unchanged.
C23_DestinationPublicClaim ==
    [][/\ DestinationClaimInTime => DestinationClaimSucceeds
       /\ DestinationRefundByNonTaker =>
              /\ destination_resp'.result = "Unauthorized"
              /\ destination_escrows' = destination_escrows]_vars

\* C23 (amended): as stated, but the refund by another caller fails with
\* Unauthorized on a Funded escrow and with InvalidState on an escrow in any
\* other state.
C23_DestinationPublicClaimRefundWhenFunded ==
    [][/\ DestinationClaimInTime => DestinationClaimSucceeds
       /\ DestinationRefundByNonTaker =>
              /\ destination_resp'.result =
                     IF destination_escrows[destination_resp'.id].state = "Funded"
                     THEN "Unauthorized" ELSE "InvalidState"
              /\ destination_escrows' = destination_escrows]_vars

C23_Witness ==
    /\ destination_resp.op = "refund"
    /\ destination_resp.result = "Unauthorized"
    /\ destination_resp.caller = "carol"
    /\ destination_resp.id \in DOMAIN destination_escrows
    /\ destination_escrows[destination_resp.id].state = "Funded"
    /\ destination_escrows[destination_resp.id].timelock <= destination_resp.at

\* C24: for every timelock t and clock value now, each timelock test answers
\* Active iff now < t and Expired otherwise; at now = t the answer is Expired.
C24_ActiveIffBeforeTimelock ==
    tl_resp.op \in {"get_timelock_status", "is_timelock_expired",
                    "TimelockManager::is_timelock_expired"} =>
        (~tl_resp.expired <=> tl_resp.current_time < tl_resp.timelock)

(***************************************************************************)
(* Claims about funding an escrow.                                         *)
(***************************************************************************)
\* The backend's deposit_tokens, which takes the amount.
BackendFundContract ==
    escrow_resp.op = "deposit" /\ escrow_resp.pre_state # "NotFound" =>
        /\ escrow_resp.result = "Ok" =>
               /\ escrow_resp.pre_state = "Created"
               /\ escrow_resp.amount = escrows[escrow_resp.id].amount
               /\ escrows[escrow_resp.id].state = "Funded"
        /\ escrow_resp.pre_state # "Created" =>
               /\ escrow_resp.result = "InvalidState"
               /\ escrows[escrow_resp.id].state = escrow_resp.pre_state
        /\ escrow_resp.pre_state = "Created"
             /\ escrow_resp.amount # escrows[escrow_resp.id].amount =>
               /\ escrow_resp.result = "InvalidAmount"
               /\ escrows[escrow_resp.id].state = "Created"

\* The escrow canister's fund_escrow, which takes the id alone.
CanisterFundContract ==
    fusion_escrow_resp.op = "fund_escrow" /\ fusion_escrow_resp.pre_status # "NotFound" =>
        /\ fusion_escrow_resp.result = "Ok" =>
               /\ fusion_escrow_resp.pre_status = "Created"
               /\ FUSION_ESCROWS[fusion_escrow_resp.id].status = "Funded"
        /\ fusion_escrow_resp.pre_status # "Created" =>
               /\ fusion_escrow_resp.result = "InvalidState"
               /\ FUSION_ESCROWS[fusion_escrow_resp.id].status = fusion_escrow_resp.pre_status

\* C25: fund succeeds only on an escrow that is Created, with the escrow's
\* amount, and leaves it Funded; on any other state it fails with
\* InvalidState, on another amount with InvalidAmount, and the escrow is
\* unchanged in both cases.
C25_FundOnlyFromCreated == BackendFundContract /\ CanisterFundContract

(***************************************************************************)
(* Claims about the expiry of an escrow.                                   *)
(***************************************************************************)
\* C26: an escrow that is Created or Funded (so nobody claimed it) and whose
\* timelock has passed is Expired when it is observed after the timelock.
\* (Its second half, that an Expired escrow never changes state again, is a
\* statement about states the store would then hold.)
C26_ExpiredWhenObservedAfterTimelock ==
    /\ escrow_resp.op = "get_escrow_status"
    /\ escrow_resp.pre_state \in {"Created", "Funded"}
    /\ get_timelock_status(escrow_resp.timelock, escrow_resp.at) = "Expired"
    => escrow_resp.result = "Expired"

\* No escrow of the backend store is ever Expired.
NoEscrowIsExpired == \A id \in DOMAIN escrows : escrows[id].state # "Expired"

(***************************************************************************)
(* Claims about the orders of the limit-order engine.                      *)
(***************************************************************************)
\* What validate_order_params admitted stays true of the stored order.
StoredOrderAmountsAndAssets ==
    \A id \in DOMAIN orders :
        /\ orders[id].making_amount > 0
        /\ orders[id].taking_amount > 0
        /\ orders[id].maker_asset # orders[id].taker_asset

\* C27: every stored order has making_amount > 0, taking_amount > 0,
\* maker_asset # taker_asset and expiration > created_at, also when the
\* clock advances while create_order waits for the maker balance check.
C27_StoredOrdersAreValid ==
    /\ StoredOrderAmountsAndAssets
    /\ \A id \in DOMAIN orders : orders[id].expiration > orders[id].created_at

\* C28: the id a successful create_order returns is greater than every id
\* issued before it, whatever the interleaving of the create_order calls:
\* it is the id of no stored order, and no stored order is replaced.
C28_OrderIdsStrictlyIncrease ==
    [][stats'.orders_created > stats.orders_created =>
           /\ order_resp'.op = "create_order" /\ order_resp'.result = "Ok"
           /\ order_resp'.order_id \notin DOMAIN orders
           /\ \A old \in DOMAIN orders :
                  /\ order_resp'.order_id > old
                  /\ orders'[old] = orders[old]
           /\ orders'[order_resp'.order_id].id = order_resp'.order_id]_vars

\* Two orders, bob's and alice's, were issued at the same clock value while a
\* third create_order is still suspended.
C28_Witness ==
    /\ DOMAIN orders = {1, 2}
    /\ CreatingCalls # {}
    /\ orders[1].maker = "bob" /\ orders[2].maker = "alice"
    /\ orders[1].created_at = orders[2].created_at

\* A step in which cancel_order, called by the maker of a stored order that is
\* not cancellable (expired, filled or cancelled), returns.
CancelOfUncancellableByMaker ==
    /\ order_resp' # order_resp
    /\ order_resp'.op = "cancel_order"
    /\ order_resp'.order_id \in DOMAIN orders
    /\ order_resp'.caller = orders[order_resp'.order_id].maker
    /\ ~is_order_active(order_resp'.order_id)

\* C29 as stated: cancel_order by the maker on an order that is not
\* cancellable fails with OrderAlreadyFilled if the order was filled, with
\* OrderExpired if it has expired and with OrderCancelled if it was already
\* cancelled; it records no cancellation and leaves the statistics alone.
C29_CancelErrorsByState ==
    [][CancelOfUncancellableByMaker =>
           /\ order_resp'.order_id \in filled_orders =>
                  order_resp'.result = "OrderAlreadyFilled"
           /\ orders[order_resp'.order_id].expiration <= now =>
                  order_resp'.result = "OrderExpired"
           /\ order_resp'.order_id \in cancelled_orders =>
                  order_resp'.result = "OrderCancelled"
           /\ UNCHANGED <<cancelled_orders, stats>>]_vars

\* C29, amended: the error is OrderExpired if the order has expired,
\* otherwise OrderAlreadyFilled if it was filled, otherwise OrderCancelled;
\* no cancellation is recorded and the statistics are left alone.
C29_CancelErrorsExpiredFirst ==
    [][CancelOfUncancellableByMaker =>
           /\ order_resp'.result =
                  IF orders[order_resp'.order_id].expiration <= now THEN "OrderExpired"
                  ELSE IF order_resp'.order_id \in filled_orders THEN "OrderAlreadyFilled"
                  ELSE "OrderCancelled"
           /\ UNCHANGED <<cancelled_orders, stats>>]_vars

\* The maker's cancel_order came back with OrderExpired on an order that was
\* filled and never cancelled.
C29_Witness ==
    /\ order_resp.op = "cancel_order"
    /\ order_resp.order_id \in DOMAIN orders
    /\ order_resp.caller = orders[order_resp.order_id].maker
    /\ order_resp.result = "OrderExpired"
    /\ order_resp.order_id \in filled_orders
    /\ order_resp.order_id \notin cancelled_orders
    /\ stats.orders_cancelled = 0

(***************************************************************************)
(* Claims about the price curve.                                           *)
(***************************************************************************)
\* The segments of a curve that hold the elapsed time.
SegmentsHolding(curve, elapsed_time) ==
    {i \in 1..Len(curve.segments) :
        /\ curve.segments[i].start_time <= elapsed_time
        /\ elapsed_time < curve.segments[i].end_time}

\* The linear interpolation inside a segment, in the integers.
Interpolated(segment, elapsed_time) ==
    segment.start_price
      - ((segment.start_price - segment.end_price) * (elapsed_time - segment.start_time))
            \div (segment.end_time - segment.start_time)

\* C30: at an elapsed time e inside a segment [start_time, end_time) the
\* price is start_price - (start_price - end_price) * (e - start_time) /
\* (end_time - start_time); at every e at or beyond total_duration it is the
\* end_price of the final segment.
C30_PriceCurveInterpolates ==
    fusion_resp.op = "calculate_price" =>
        LET curve == fusion_resp.curve
            e == fusion_resp.elapsed_time
        IN  /\ e >= curve.total_duration =>
                   /\ fusion_resp.result.ok
                   /\ fusion_resp.result.price =
                          curve.segments[Len(curve.segments)].end_price
            /\ \A i \in SegmentsHolding(curve, e) :
                   /\ fusion_resp.result.ok
                   /\ fusion_resp.result.price = Interpolated(curve.segments[i], e)

\* The same, for the calls in which no u64 operation leaves the u64 range.
PriceCurveInterpolatesInRange ==
    /\ fusion_resp.op = "calculate_price"
    /\ \A i \in SegmentsHolding(fusion_resp.curve, fusion_resp.elapsed_time) :
           LET segment == fusion_resp.curve.segments[i]
           IN  (segment.start_price - segment.end_price)
                   * (fusion_resp.elapsed_time - segment.start_time) < U64Modulus
    => C30_PriceCurveInterpolates

(***************************************************************************)
(* Claims about the Dutch auction price.                                   *)
(***************************************************************************)
\* The elapsed time of a price request, once the auction has started.
ElapsedOf(resp) == resp.current_time - resp.order.auction_start_timestamp

\* Two price requests in a row for the same order, the second no earlier than
\* the first, both inside one segment of the order's curve, both answered.
LaterInSameSegment ==
    /\ fusion_resp.op = "calculate_current_price"
    /\ fusion_resp'.op = "calculate_current_price"
    /\ fusion_resp'.order = fusion_resp.order
    /\ fusion_resp.result.ok /\ fusion_resp'.result.ok
    /\ fusion_resp.order.auction_start_timestamp <= fusion_resp.current_time
    /\ fusion_resp.current_time <= fusion_resp'.current_time
    /\ ElapsedOf(fusion_resp') < fusion_resp.order.price_curve.total_duration
    /\ \E i \in SegmentsHolding(fusion_resp.order.price_curve, ElapsedOf(fusion_resp)) :
           i \in SegmentsHolding(fusion_resp.order.price_curve, ElapsedOf(fusion_resp'))

\* C31: for two times t1 <= t2 within the same price segment the current
\* price at t2 is at most the price at t1, for every curve an order can carry.
C31_PriceNeverRisesInSegment ==
    [][LaterInSameSegment => fusion_resp'.result.price <= fusion_resp.result.price]_vars

\* The same for the requests in which no u64 product leaves the u64 range.
PriceNeverRisesInRange ==
    [][/\ LaterInSameSegment
       /\ \A i \in SegmentsHolding(fusion_resp.order.price_curve, ElapsedOf(fusion_resp')) :
              LET segment == fusion_resp.order.price_curve.segments[i]
              IN  (segment.start_price - segment.end_price)
                      * (ElapsedOf(fusion_resp') - segment.start_time) < U64Modulus
       => fusion_resp'.result.price <= fusion_resp.result.price]_vars

\* A price request at or after the end of the order's auction.
AfterTotalDuration ==
    /\ fusion_resp.op = "calculate_current_price"
    /\ fusion_resp.current_time >=
           fusion_resp.order.auction_start_timestamp
             + fusion_resp.order.price_curve.total_duration

\* C32: at every time at or after the auction's total duration since the
\* auction start the current price equals minimum_return_amount.
C32_PriceClampedAtMinimumReturn ==
    AfterTotalDuration =>
        /\ fusion_resp.result.ok
        /\ fusion_resp.result.price = fusion_resp.order.minimum_return_amount

\* The end price of the final segment of a curve (0 if it has no segment).
FinalEndPrice(curve) ==
    IF Len(curve.segments) = 0 THEN 0 ELSE curve.segments[Len(curve.segments)].end_price

\* C32, amended: at every time at or after the auction's total duration the
\* current price is the greater of minimum_return_amount and the end price
\* of the curve's final segment; for an order that still carries the curve
\* FusionOrder::new gave it that is minimum_return_amount.
C32_PriceClampedAtFloorOrFinalPrice ==
    AfterTotalDuration =>
        /\ fusion_resp.result.ok
        /\ fusion_resp.result.price >= fusion_resp.order.minimum_return_amount
        /\ fusion_resp.result.price >= FinalEndPrice(fusion_resp.order.price_curve)
        /\ fusion_resp.result.price \in {fusion_resp.order.minimum_return_amount,
                                         FinalEndPrice(fusion_resp.order.price_curve)}
        /\ fusion_resp.order = auction_parameters(fusion_resp.order.taking_amount) =>
               fusion_resp.result.price = fusion_resp.order.minimum_return_amount

\* After the total duration an order whose curve was replaced is priced at the
\* curve's final end price, above its minimum_return_amount.
C32_Witness ==
    /\ AfterTotalDuration
    /\ fusion_resp.order # auction_parameters(fusion_resp.order.taking_amount)
    /\ fusion_resp.result.ok
    /\ fusion_resp.result.price = FinalEndPrice(fusion_resp.order.price_curve)
    /\ fusion_resp.result.price > fusion_resp.order.minimum_return_amount

\* The price is never below minimum_return_amount once the auction started.
PriceNeverBelowMinimumReturn ==
    /\ fusion_resp.op = "calculate_current_price"
    /\ fusion_resp.current_time >= fusion_resp.order.auction_start_timestamp
    /\ fusion_resp.result.ok
    => fusion_resp.result.price >= fusion_resp.order.minimum_return_amount

(***************************************************************************)
(* Claims about the coordination ledger.                                   *)
(***************************************************************************)
\* The changes of coordination_state the specification allows.
CoordinationStep(from, to) ==
    \/ <<from, to>> \in {<<"Pending", "EscrowsCreated">>, <<"EscrowsCreated", "Active">>,
                         <<"Active", "SecretRevealed">>, <<"SecretRevealed", "Completed">>}
    \/ /\ from \in {"Pending", "EscrowsCreated", "Active", "SecretRevealed"}
       /\ to \in {"Expired", "Failed"}

\* C33: coordination_state starts at Pending and changes only along
\* Pending -> EscrowsCreated -> Active -> SecretRevealed -> Completed, or to
\* Expired or Failed from a state that is not terminal; Completed, Expired
\* and Failed are never left.
C33_CoordinationStateOnlyAdvances ==
    [][\A id \in DOMAIN cross_chain_escrows' :
           IF id \in DOMAIN cross_chain_escrows
           THEN \/ cross_chain_escrows'[id].coordination_state
                       = cross_chain_escrows[id].coordination_state
                \/ CoordinationStep(cross_chain_escrows[id].coordination_state,
                                    cross_chain_escrows'[id].coordination_state)
           ELSE cross_chain_escrows'[id].coordination_state = "Pending"]_vars

\* The part of C33 about where a pairing starts, with the state the code
\* gives it: create_cross_chain_escrow, the one operation that adds a pairing
\* and answers nothing here.
PairingsStartAtEscrowsCreated ==
    [][tl_resp' = tl_resp =>
           \A id \in DOMAIN cross_chain_escrows' \ DOMAIN cross_chain_escrows :
               cross_chain_escrows'[id].coordination_state = "EscrowsCreated"]_vars

\* s is a prefix of t.
IsPrefix(s, t) == Len(s) <= Len(t) /\ \A i \in 1..Len(s) : s[i] = t[i]

\* C34: the event log of a pairing only grows by appending: its earlier
\* content is a prefix of its later content under every ledger operation.
C34_EventLogAppendOnly ==
    [][\A id \in DOMAIN cross_chain_escrows :
           /\ id \in DOMAIN cross_chain_escrows'
           /\ IsPrefix(cross_chain_escrows[id].events, cross_chain_escrows'[id].events)]_vars

\* The same under add_event_to_cross_chain_escrow and the state update alone.
EventLogAppendOnlyUnderAddEvent ==
    [][tl_resp'.op \in {"add_event_to_cross_chain_escrow",
                        "update_cross_chain_coordination_state"}
       /\ tl_resp' # tl_resp =>
           \A id \in DOMAIN cross_chain_escrows :
               /\ id \in DOMAIN cross_chain_escrows'
               /\ IsPrefix(cross_chain_escrows[id].events,
                           cross_chain_escrows'[id].events)]_vars

(***************************************************************************)
(* Claims about the upgrade of the backend canister.                       *)
(***************************************************************************)
\* The step is an upgrade.
UpgradeStep ==
    /\ upgrade_resp'.upgrades # upgrade_resp.upgrades
    /\ upgrade_resp'.op = "upgrade"

\* The step is an upgrade of the orderbook.
OrderbookUpgradeStep ==
    /\ upgrade_resp'.upgrades # upgrade_resp.upgrades
    /\ upgrade_resp'.op = "orderbook_upgrade"

\* C35: a restore that finds no snapshot completes and leaves an empty order
\* store, empty filled and cancelled sets, the order counter 0 and default
\* statistics; in the orderbook it leaves an empty store of fusion orders.
C35_RestoreWithoutSnapshotIsEmpty ==
    [][/\ UpgradeStep /\ ~upgrade_resp'.restored =>
              /\ orders' = <<>>
              /\ filled_orders' = {}
              /\ cancelled_orders' = {}
              /\ order_counter' = 0
              /\ stats' = SystemStats_default
       /\ OrderbookUpgradeStep /\ ~upgrade_resp'.restored =>
              fusion_orders' = <<>>]_vars

\* An upgrade found no snapshot although orders had been created before it.
C35_Witness ==
    /\ upgrade_resp.op = "upgrade"
    /\ ~upgrade_resp.restored
    /\ upgrade_resp.counter_before > 0
    /\ order_counter = 0
    /\ orders = <<>>

\* C40: an upgrade reproduces the escrows, the orders, the filled and
\* cancelled sets, the order counter and the statistics it started from.
C40_UpgradeReproducesState ==
    [][UpgradeStep => BackendState' = BackendState]_vars

\* What an upgrade whose save succeeded does reproduce: the limit order state.
SavedUpgradeReproducesLimitOrderState ==
    [][UpgradeStep /\ upgrade_resp'.save = "Ok" =>
           /\ orders' = orders
           /\ filled_orders' = filled_orders
           /\ cancelled_orders' = cancelled_orders
           /\ order_counter' = order_counter
           /\ stats' = stats]_vars

\* An upgrade of the orderbook whose save succeeded reproduces its orders.
SavedOrderbookUpgradeReproducesOrders ==
    [][OrderbookUpgradeStep /\ upgrade_resp'.save = "Ok" =>
           fusion_orders' = fusion_orders]_vars

\* An upgrade of the orderbook found no snapshot and the order it held is gone.
OrderbookUpgradeLostOrders ==
    /\ upgrade_resp.op = "orderbook_upgrade"
    /\ ~upgrade_resp.restored
    /\ upgrade_resp.orders_before > 0
    /\ fusion_orders = <<>>

\* The escrows of the backend do not outlive an upgrade.
UpgradeEmptiesEscrows ==
    [][UpgradeStep => escrows' = <<>> /\ source_escrows' = <<>>
                      /\ destination_escrows' = <<>>]_vars

(***************************************************************************)
(* Claims about the statistics of the backend's limit orders.              *)
(***************************************************************************)
\* C36: each fill_order that succeeds adds exactly 1 to orders_filled, so
\* orders_filled is the number of orders in the filled set.
C36_OrdersFilledCountsFilledSet ==
    stats.orders_filled = Cardinality(filled_orders)

\* What a fill_order that succeeds adds to orders_filled: 2, one for each asset.
SuccessfulFillCountsTwice ==
    [][fill_ok' # fill_ok /\ order_resp'.op = "fill_order" =>
           stats'.orders_filled = stats.orders_filled + 2]_vars

(***************************************************************************)
(* Claims about concurrent calls of the escrow canister.                   *)
(***************************************************************************)
\* C37: under every interleaving of claim_locked_icp and refund_locked_icp
\* at most one transfer leaves an escrow: it is never paid out twice and
\* never both claimed and refunded.
C37_AtMostOneTransferOut ==
    \A escrow_id \in DOMAIN transfers_out : Len(transfers_out[escrow_id]) <= 1

\* With one call at a time a transfer leaves an escrow only while it is Funded.
TransferOutOnlyFromFunded ==
    [][transfers_out' # transfers_out =>
           \A escrow_id \in DOMAIN transfers_out' :
               TransfersOutOf(escrow_id) # transfers_out'[escrow_id] =>
                   /\ escrow_id \in DOMAIN FUSION_ESCROWS
                   /\ FUSION_ESCROWS[escrow_id].status = "Funded"]_vars

\* An escrow of the escrow canister becomes Funded in this step.
BecomesFunded(escrow_id) ==
    /\ FUSION_ESCROWS'[escrow_id].status = "Funded"
    /\ FusionEscrowStatusOf(escrow_id) # "Funded"

\* C38: an escrow of the escrow canister is Funded only because the deposit
\* transfer of its lock succeeded; when that transfer fails it stays Created
\* and no other call marks it Funded.
C38_FundedOnlyByDepositTransfer ==
    [][\A escrow_id \in DOMAIN FUSION_ESCROWS' :
           BecomesFunded(escrow_id) =>
               /\ fusion_escrow_resp'.op \in {"lock_icp_for_swap", "lock_icp_for_order"}
               /\ fusion_escrow_resp'.id = escrow_id
               /\ fusion_escrow_resp'.result = "Ok"]_vars

\* The calls that do mark an escrow Funded: a lock whose transfer succeeded,
\* and fund_escrow.
FundedOnlyByLockOrFundEscrow ==
    [][\A escrow_id \in DOMAIN FUSION_ESCROWS' :
           BecomesFunded(escrow_id) =>
               /\ fusion_escrow_resp'.op \in {"lock_icp_for_swap", "lock_icp_for_order",
                                               "fund_escrow"}
               /\ fusion_escrow_resp'.id = escrow_id
               /\ fusion_escrow_resp'.result = "Ok"]_vars

\* lock_icp_for_order stored and funded an escrow whose timelock had passed
\* while the call waited for the orderbook: the id carries the later time.
OrderLockFundedAfterTimelock ==
    /\ fusion_escrow_resp.op = "lock_icp_for_order"
    /\ fusion_escrow_resp.result = "Ok"
    /\ LET escrow == FUSION_ESCROWS[fusion_escrow_resp.id]
       IN  /\ escrow.status = "Funded"
           /\ escrow.resolver = Anonymous
           /\ escrow.locked_at < escrow.timelock
           /\ escrow.timelock <= escrow.id[3]

(***************************************************************************)
(* Claims about concurrent calls of the orderbook.                         *)
(***************************************************************************)
\* C39: under every interleaving of complete_order_with_secret and
\* cancel_order on an order at most one of the two ever returns success.
C39_CompleteAndCancelExclusive ==
    \A order_id \in DOMAIN fusion_orders :
        ~(/\ <<order_id, "complete_order_with_secret">> \in fusion_ok
          /\ <<order_id, "cancel_order">> \in fusion_ok)

=============================================================================
